---- MODULE Spec2Model ----
(***************************************************************************)
(* Model of the CMacIonize driver (src/src/CMacIonize.cpp, main), of the   *)
(* photon source (src/src/PhotonSource.cpp: construction, photon budget,   *)
(* sampling and reemit), of the reemission probabilities of a cell        *)
(* (src/src/DensityGridInterface.hpp) and of the macros error, warning     *)
(* and message (src/src/Error.hpp).                                        *)
(*                                                                         *)
(* The driver is modelled as a sequential program whose position is pc;    *)
(* the shared memory photon shooting of one substep is modelled by worker  *)
(* threads that take jobs from the job market while main is blocked in     *)
(* do_in_parallel.  External collaborators (convergence checkers, the      *)
(* factories) answer nondeterministically.  Spec is the driver, SpecReemit *)
(* the reemission of a photon, SpecSource the photon source object,        *)
(* SpecProbabilities a cell of the grid and SpecError a call of a macro.   *)
(***************************************************************************)
EXTENDS Integers, Sequences, FiniteSets, TLC

\* ------------------------------------------------------------------------
\* Bounds of the model
\* ------------------------------------------------------------------------

\* largest value of the max_number_iterations parameter that is explored
MaxLoops == 5

\* the photon number convergence checker reports convergence at the latest
\* after this many substeps of one iteration
MaxSubsteps == 2

\* number of worker threads of the WorkDistributor
NumThreads == 2

\* ------------------------------------------------------------------------
\* Program constants
\* ------------------------------------------------------------------------

\* number of photons of a single PhotonShootJob (CMacIonize.cpp:337)
JobSize == 100

\* last loop index of the warm-up phase (CMacIonize.cpp:437, "loop > 3")
WarmupLastLoop == 3

\* width of unsigned int
UIntWidth == 32

\* TLC integers are 32 bit wide as well, so an unsigned int is kept as its
\* two 16 bit halves: the value is hi * 2^16 + lo
UIntHalf == 2 ^ (UIntWidth \div 2)

\* the unsigned int with the value x modulo 2^32
ToUInt(x) == [hi |-> (x \div UIntHalf) % UIntHalf, lo |-> x % UIntHalf]

\* values the photon number parameters and checker answers are drawn from
PhotonCounts == {100, 200}

Workers == 1 .. NumThreads

\* resolution of the uniform random draws and of the probabilities
DrawSteps == 4

\* largest square root of a temperature
MaxSqrt == 100

\* the frequency of the 19.8eV line in THz (PhotonSource.cpp:351)
LineTHz == 4788

\* factor of the on the spot probability (PhotonSource.cpp:369)
HeLyaFactor == 77

\* percentage of the He 2-photon continuum that ionizes H
\* (PhotonSource.cpp:355)
TwoPhotonPercent == 56

\* the helium abundance is counted in tenths
AbundanceUnit == 10

\* cross section of neutral helium for a photon that ionizes it, in units
\* of the hydrogen cross section
HeCrossSection == 10

\* the default of the temperature argument of get_random_frequency
DefaultTemperature == 0

VARIABLES
    pc,                    \* position of main
    dry_run,               \* --dry-run was given on the command line
    have_mpi,              \* the program was built with HAVE_MPI
    rank,                  \* comm.get_rank() (0 without MPI)
    sourcedistribution,    \* TRUE iff the pointer is not nullptr
    spectrum,              \* TRUE iff the pointer is not nullptr
    continuoussource,      \* TRUE iff the pointer is not nullptr
    continuousspectrum,    \* TRUE iff the pointer is not nullptr
    source_constructed,    \* the PhotonSource object exists
    nloop,                 \* max_number_iterations
    calculate_temperature, \* calculate_temperature parameter
    numphoton,
    numphoton_from,        \* who supplied the current value of numphoton
    params_dumped,         \* parameters-usedvalues.param was written
    grid,                  \* the density grid: initialisation and accumulators
    loop,
    it_converged,          \* last answer of itconvergence_checker->is_converged
    lnumphoton,
    numsubstep,
    totnumphoton,
    totweight,
    jobs,                  \* photons left in the PhotonShootJobMarket
    market_weight,         \* weight counted by the jobs, not yet collected
    worker,                \* per worker thread: photons of the job it executes
    solver,                \* "idle", or the solver that is running
    solver_log,            \* history: <<loop index, solver>> per solver call
    iter_substeps,         \* history: substeps dispatched in this iteration
    iter_solves,           \* history: solver calls in this iteration
    iterations,            \* history: outer iterations started
    snapshots,             \* history: calls of writer->write
    exit_code,             \* "running", "0" (return 0) or "abort"
    warnings,              \* history: the warnings main has written
    random_seed,           \* random_seed of main
    random_generators      \* per worker thread: the seed of its generator
                           \* and the photons drawn from it in this substep

\* the counters of the photons of one outer iteration
VARIABLES
    typecount,             \* typecount[] of main: the weight counted per
                           \* photon type, followed as the sum over the types
    other_ranks,           \* weight the other processes counted in this
                           \* iteration, not yet reduced
    handed                 \* history: the photons this iteration dispatched,
                           \* the weight that was counted here and
                           \* elsewhere, and what was handed to the solver
                           \* and to get_new_number_of_photons

\* state of the reemission of a photon packet (PhotonSource::reemit)
VARIABLES
    helium_abundance,      \* _abundances.get_abundance(ELEMENT_He), in tenths
    cell,                  \* DensityValues of the cell the photon is in
    photon,                \* the photon packet
    phase,                 \* "interact": absorbed in cell; "returned"
    photon_in,             \* history: the photon handed to the last call
    ret,                   \* return value of the last call of reemit
    rdraws,                \* history: the uniform draws the last call used
    branch                 \* history: the path the last call took

reemitvars == <<helium_abundance, cell, photon, phase, photon_in, ret,
                rdraws, branch>>

mainvars == <<pc, dry_run, have_mpi, rank, sourcedistribution, spectrum,
              continuoussource, continuousspectrum, source_constructed,
              nloop, calculate_temperature, numphoton, numphoton_from,
              params_dumped, grid, loop, it_converged, lnumphoton,
              numsubstep, totnumphoton, totweight, jobs, market_weight,
              worker, solver, solver_log, iter_substeps, iter_solves,
              iterations, snapshots, exit_code, warnings, random_seed,
              random_generators, typecount, other_ranks,
              handed>>

\* the counters of the photons and their history
countvars == <<typecount, other_ranks, handed>>

\* the random seed and the random generators of the jobs
randomvars == <<random_seed, random_generators>>

\* the photon source object (PhotonSource) and its last operation
VARIABLES
    source,                \* the members of the PhotonSource object
    call                   \* history: the last operation on the source

\* a cell of the density grid whose reemission probabilities are set
VARIABLES
    gridcell,              \* DensityValues of the cell
    probs_T,               \* history: T of the last call that set them
    initialize_args,       \* history: the arguments of initialize
    he_absorption          \* history: the last helium absorption in the cell

\* a call of one of the macros of Error.hpp
VARIABLES
    macro,                 \* the macro that was called and its message
    output,                \* what the call wrote to stderr and stdout
    control                \* where control is after the call

sourcevars == <<source, call>>

probvars == <<gridcell, probs_T, initialize_args, he_absorption>>

printvars == <<macro, output, control>>

notmainvars == <<reemitvars, sourcevars, probvars, printvars>>

notreemitvars == <<mainvars, sourcevars, probvars, printvars>>

notsourcevars == <<mainvars, reemitvars, probvars, printvars>>

notprobvars == <<mainvars, reemitvars, sourcevars, printvars>>

notprintvars == <<mainvars, reemitvars, sourcevars, probvars>>

vars == <<mainvars, reemitvars, sourcevars, probvars, printvars>>

\* ------------------------------------------------------------------------
\* Helpers
\* ------------------------------------------------------------------------

\* write_log and write_output: only process 0 writes (CMacIonize.cpp:73-81)
write_output == rank = 0

Min(a, b) == IF a < b THEN a ELSE b

\* comm.distribute: the share of this rank in a number of photons
distribute(n) ==
    IF have_mpi
    THEN (n \div 2) + (IF rank < n % 2 THEN 1 ELSE 0)
    ELSE n

\* the grid before initialize(): nothing was accumulated
NewGrid ==
    [initialized |-> FALSE, acc |-> 0, resets |-> 0, dirty |-> FALSE,
     T_changed |-> FALSE]

\* grid->initialize(block)
initialize_grid(g) == [g EXCEPT !.initialized = TRUE]

\* mutant: the reset is counted but the accumulators keep their values
reset_grid_keeps(g) == [g EXCEPT !.resets = @ + 1]

\* grid->reset_grid(): zero the accumulators
reset_grid(g) == [g EXCEPT !.acc = 0, !.resets = @ + 1]

\* a photon shooting job adds to the accumulators of the grid
accumulate(g, n) == [g EXCEPT !.acc = @ + n, !.dirty = TRUE]

\* mutant: one iteration too many
LoopCondition_inclusive(l, n, conv) == l <= n /\ ~conv

\* loop condition of the outer loop (CMacIonize.cpp:344)
LoopCondition(l, n, conv) == l < n /\ ~conv

\* mutant: the warm-up ends one loop early
UseTemperatureCalculator_early(calc, l) == calc /\ l >= WarmupLastLoop

\* selection of the solver (CMacIonize.cpp:437)
UseTemperatureCalculator(calc, l) == calc /\ l > WarmupLastLoop

\* mutant: the final snapshot carries the loop counter itself
FinalSnapshotIndex_loop(l) == ToUInt(l)

\* index handed to the final writer->write: unsigned loop - 1
FinalSnapshotIndex(l) == ToUInt(l - 1)

\* the grids a solver can leave behind: the ionization state calculator
\* works at fixed temperature, the temperature calculator can change the
\* temperature of a cell
SolverResults(g, s) ==
    IF s = "temperature"
    THEN {g, [g EXCEPT !.T_changed = TRUE]}
    ELSE {g}

\* writer->write(index, params): the call is recorded with the position of
\* main that made it
write(snaps, index) == Append(snaps, [index |-> index, pc |-> pc])

\* mutant: the counters of the jobs are not added
update_counters_skipped(tw, counted) == tw

\* totweight after photonshootjobs.update_counters (CMacIonize.cpp:385)
update_counters(tw, counted) == tw + counted

\* double typecount[PHOTONTYPE_NUMBER] = {0}: every photon is counted
\* under the one type it ends with, the counters are followed as their sum
NoCounts == 0

\* mutant: the photon total grows by the share of this process
counted_size_local(global, local) == local

\* totnumphoton += lnumphoton: the photon total grows by the size of the
\* substep, not by the share local_numphoton of this process
counted_size(global, local) == global

\* comm.reduce< MPI_SUM_OF_ALL_PROCESSES >: the sum over all processes
reduce(x, others) == IF have_mpi THEN x + others ELSE x

\* nothing was handed over yet
NotHanded == -1

\* the history of an iteration that just started
NoHandover ==
    [dispatched |-> 0, shot |-> 0, elsewhere |-> 0,
     solver_weight |-> NotHanded, request |-> NotHanded]

\* abort(): the process ends, nothing else of main is executed
Abort ==
    /\ pc' = "aborted"
    /\ exit_code' = "abort"

\* ------------------------------------------------------------------------
\* Initial state: the command line was parsed, MPI was set up
\* ------------------------------------------------------------------------

\* value of the random_seed parameter (default of CMacIonize.cpp:209)
DefaultSeed == 42

\* values of the random_seed parameter
Seeds == {DefaultSeed}

\* the job market does not exist yet
NoGenerators == [w \in Workers |-> [seed |-> 0, drawn |-> 0]]

\* every thread on every process gets another random seed
\* (CMacIonize.cpp:326-329)
process_seed(seed, worksize) ==
    IF have_mpi THEN seed + rank * worksize ELSE seed

\* the random generators of the jobs of the job market, one per worker
\* thread: the job of thread i is seeded with the seed of the market plus i
generators(seed) ==
    [w \in Workers |-> [seed |-> seed + (w - 1), drawn |-> 0]]

\* the generators when do_in_parallel has returned: the count of the
\* photons drawn during the call starts again
rewound(gens) == [w \in Workers |-> [gens[w] EXCEPT !.drawn = 0]]

\* the locals of main before they are assigned
MainLocals ==
    /\ pc = "start"
    /\ sourcedistribution = FALSE
    /\ spectrum = FALSE
    /\ continuoussource = FALSE
    /\ continuousspectrum = FALSE
    /\ source_constructed = FALSE
    /\ nloop = 0
    /\ calculate_temperature = FALSE
    /\ numphoton = 0
    /\ numphoton_from = "none"
    /\ params_dumped = FALSE
    /\ grid = NewGrid
    /\ loop = 0
    /\ it_converged = FALSE
    /\ lnumphoton = 0
    /\ numsubstep = 0
    /\ totnumphoton = 0
    /\ totweight = 0
    /\ jobs = 0
    /\ market_weight = 0
    /\ typecount = NoCounts
    /\ other_ranks = 0
    /\ handed = NoHandover
    /\ worker = [w \in Workers |-> 0]
    /\ solver = "idle"
    /\ solver_log = <<>>
    /\ iter_substeps = 0
    /\ iter_solves = 0
    /\ iterations = 0
    /\ snapshots = <<>>
    /\ exit_code = "running"
    /\ warnings = {}
    /\ random_seed = 0
    /\ random_generators = NoGenerators

InitMain ==
    /\ dry_run \in BOOLEAN
    /\ have_mpi \in BOOLEAN
    /\ rank \in (IF have_mpi THEN {0, 1} ELSE {0})
    /\ MainLocals

\* ------------------------------------------------------------------------
\* Start up of main
\* ------------------------------------------------------------------------

\* refuse to run a dirty code version unless --dirty was given
CheckDirty ==
    /\ pc = "start"
    /\ \E is_dirty \in BOOLEAN, allow_dirty \in BOOLEAN :
          IF is_dirty /\ ~allow_dirty
          THEN Abort
          ELSE pc' = "sources" /\ exit_code' = exit_code
    /\ UNCHANGED notmainvars
    /\ UNCHANGED <<countvars, warnings, randomvars, dry_run, have_mpi, rank, sourcedistribution, spectrum,
                   continuoussource, continuousspectrum, source_constructed,
                   nloop, calculate_temperature, numphoton, numphoton_from,
                   params_dumped, grid, loop, it_converged, lnumphoton,
                   numsubstep, totnumphoton, totweight, jobs, market_weight,
                   worker, solver, solver_log, iter_substeps, iter_solves,
                   iterations, snapshots>>

\* mutant: a source without a spectrum is only warned about
MissingSpectrum_warned(source_present, spectrum_present) == FALSE

\* mutant: every inconsistent pair of a source and a spectrum is an error
MissingSpectrum_inconsistent(source_present, spectrum_present) ==
    source_present /= spectrum_present

\* a source was configured without its spectrum: cmac_error
\* (CMacIonize.cpp:213-215 and 228-230)
MissingSpectrum(source_present, spectrum_present) ==
    source_present /\ ~spectrum_present

\* a spectrum was configured without its source: cmac_warning, the spectrum
\* is ignored and main goes on (CMacIonize.cpp:216-220 and 231-235)
IgnoredSpectrum(source_present, spectrum_present) ==
    ~source_present /\ spectrum_present

\* the discrete sources and their spectrum
GenerateSources ==
    /\ pc = "sources"
    /\ \E d \in BOOLEAN, s \in BOOLEAN :
          /\ sourcedistribution' = d
          /\ spectrum' = s
          /\ random_seed' \in Seeds
          /\ warnings' = IF IgnoredSpectrum(d, s)
                         THEN warnings \cup {"discrete spectrum ignored"}
                         ELSE warnings
          /\ IF MissingSpectrum(d, s)
             THEN Abort
             ELSE pc' = "continuous" /\ exit_code' = exit_code
    /\ UNCHANGED notmainvars
    /\ UNCHANGED <<countvars, random_generators, dry_run, have_mpi, rank,
                   continuoussource, continuousspectrum, source_constructed,
                   nloop, calculate_temperature, numphoton, numphoton_from,
                   params_dumped, grid, loop, it_converged, lnumphoton,
                   numsubstep, totnumphoton, totweight, jobs, market_weight,
                   worker, solver, solver_log, iter_substeps, iter_solves,
                   iterations, snapshots>>

\* the continuous source and its spectrum
GenerateContinuousSource ==
    /\ pc = "continuous"
    /\ \E c \in BOOLEAN, s \in BOOLEAN :
          /\ continuoussource' = c
          /\ continuousspectrum' = s
          /\ warnings' = IF IgnoredSpectrum(c, s)
                         THEN warnings \cup {"continuous spectrum ignored"}
                         ELSE warnings
          /\ IF MissingSpectrum(c, s)
             THEN Abort
             ELSE pc' = "setup" /\ exit_code' = exit_code
    /\ UNCHANGED notmainvars
    /\ UNCHANGED <<countvars, randomvars, dry_run, have_mpi, rank, sourcedistribution, spectrum,
                   source_constructed,
                   nloop, calculate_temperature, numphoton, numphoton_from,
                   params_dumped, grid, loop, it_converged, lnumphoton,
                   numsubstep, totnumphoton, totweight, jobs, market_weight,
                   worker, solver, solver_log, iter_substeps, iter_solves,
                   iterations, snapshots>>

\* construction of the PhotonSource, the writer, the checkers and the
\* solvers; the remaining parameters are read.  The PhotonSource constructor
\* aborts when the weights of the discrete sources do not sum to 1.
Setup ==
    /\ pc = "setup"
    /\ \E weights_ok \in (IF sourcedistribution THEN BOOLEAN ELSE {TRUE}) :
          IF ~weights_ok
          THEN /\ Abort
               /\ UNCHANGED <<source_constructed, nloop, numphoton,
                              numphoton_from, calculate_temperature>>
          ELSE /\ source_constructed' = TRUE
               /\ nloop' \in 0 .. MaxLoops
               /\ numphoton' \in PhotonCounts
               /\ numphoton_from' = "parameter"
               /\ calculate_temperature' \in BOOLEAN
               /\ pc' = "dump"
               /\ exit_code' = exit_code
    /\ UNCHANGED notmainvars
    /\ UNCHANGED <<countvars, warnings, randomvars, dry_run, have_mpi, rank, sourcedistribution, spectrum,
                   continuoussource, continuousspectrum,
                   params_dumped, grid, loop, it_converged, lnumphoton,
                   numsubstep, totnumphoton, totweight, jobs, market_weight,
                   worker, solver, solver_log, iter_substeps, iter_solves,
                   iterations, snapshots>>

\* parameters-usedvalues.param is written by the process that writes output
WriteUsedValues ==
    /\ pc = "dump"
    /\ params_dumped' = write_output
    /\ pc' = "dryrun_gate"
    /\ UNCHANGED notmainvars
    /\ UNCHANGED <<countvars, warnings, randomvars, dry_run, have_mpi, rank, sourcedistribution, spectrum,
                   continuoussource, continuousspectrum, source_constructed,
                   nloop, calculate_temperature, numphoton, numphoton_from,
                   grid, loop, it_converged, lnumphoton,
                   numsubstep, totnumphoton, totweight, jobs, market_weight,
                   worker, solver, solver_log, iter_substeps, iter_solves,
                   iterations, snapshots, exit_code>>

\* mutant: the dry run flag is ignored
DryRunRequested_ignored(d) == FALSE

\* parser.get_value< bool >("dry-run") (CMacIonize.cpp:291)
DryRunRequested(d) == d

\* a dry run halts here with return 0
DryRunGate ==
    /\ pc = "dryrun_gate"
    /\ IF DryRunRequested(dry_run)
       THEN pc' = "done" /\ exit_code' = "0"
       ELSE pc' = "init_grid" /\ exit_code' = exit_code
    /\ UNCHANGED notmainvars
    /\ UNCHANGED <<countvars, warnings, randomvars, dry_run, have_mpi, rank, sourcedistribution, spectrum,
                   continuoussource, continuousspectrum, source_constructed,
                   nloop, calculate_temperature, numphoton, numphoton_from,
                   params_dumped, grid, loop, it_converged, lnumphoton,
                   numsubstep, totnumphoton, totweight, jobs, market_weight,
                   worker, solver, solver_log, iter_substeps, iter_solves,
                   iterations, snapshots>>

\* grid->initialize(block), the work distributor and the job market
InitializeGrid ==
    /\ pc = "init_grid"
    /\ grid' = initialize_grid(grid)
    /\ random_seed' = process_seed(random_seed, NumThreads)
    /\ random_generators' = generators(random_seed')
    /\ pc' = "first_snapshot"
    /\ UNCHANGED notmainvars
    /\ UNCHANGED <<countvars, warnings, dry_run, have_mpi, rank, sourcedistribution, spectrum,
                   continuoussource, continuousspectrum, source_constructed,
                   nloop, calculate_temperature, numphoton, numphoton_from,
                   params_dumped, loop, it_converged, lnumphoton,
                   numsubstep, totnumphoton, totweight, jobs, market_weight,
                   worker, solver, solver_log, iter_substeps, iter_solves,
                   iterations, snapshots, exit_code>>

\* writer->write(0, params) and unsigned int loop = 0
WriteInitialSnapshot ==
    /\ pc = "first_snapshot"
    /\ snapshots' = IF write_output
                    THEN write(snapshots, ToUInt(0))
                    ELSE snapshots
    /\ loop' = 0
    /\ pc' = "loop_test"
    /\ UNCHANGED notmainvars
    /\ UNCHANGED <<countvars, warnings, randomvars, dry_run, have_mpi, rank, sourcedistribution, spectrum,
                   continuoussource, continuousspectrum, source_constructed,
                   nloop, calculate_temperature, numphoton, numphoton_from,
                   params_dumped, grid, it_converged, lnumphoton,
                   numsubstep, totnumphoton, totweight, jobs, market_weight,
                   worker, solver, solver_log, iter_substeps, iter_solves,
                   iterations, exit_code>>

\* ------------------------------------------------------------------------
\* The outer iteration loop
\* ------------------------------------------------------------------------

\* what the start up fixed and the loop never changes
config == <<dry_run, have_mpi, rank, sourcedistribution, spectrum,
            continuoussource, continuousspectrum, source_constructed,
            nloop, calculate_temperature, params_dumped, exit_code,
            warnings, random_seed>>

\* while (loop < nloop && !itconvergence_checker->is_converged()): the
\* checker is only asked when loop < nloop
LoopTest ==
    /\ pc = "loop_test"
    /\ \E conv \in (IF loop < nloop THEN BOOLEAN ELSE {it_converged}) :
          /\ it_converged' = conv
          /\ pc' = IF LoopCondition(loop, nloop, conv)
                   THEN "loop_start"
                   ELSE "after_loop"
    /\ UNCHANGED notmainvars
    /\ UNCHANGED <<countvars, random_generators, config, numphoton, numphoton_from, grid, loop, lnumphoton,
                   numsubstep, totnumphoton, totweight, jobs, market_weight,
                   worker, solver, solver_log, iter_substeps, iter_solves,
                   iterations, snapshots>>

\* the checker asked at the start of the loop body changed for the other
first_checker_swapped == "convergence_checker"

\* the checker that is asked for the number of photons of this iteration,
\* itconvergence_checker->get_next_number_of_photons (CMacIonize.cpp:352)
first_checker == "itconvergence_checker"

\* the checker that is asked for the new number of photons at the end of
\* the iteration, convergence_checker->get_new_number_of_photons
\* (CMacIonize.cpp:467)
last_checker == "convergence_checker"

\* start of the loop body: the number of photons of this iteration, the
\* reset of the grid and of the counters
StartLoop ==
    /\ pc = "loop_start"
    /\ \E n \in PhotonCounts :
          /\ numphoton' = n
          /\ lnumphoton' = n
    /\ numphoton_from' = first_checker
    /\ grid' = reset_grid(grid)
    /\ numsubstep' = 0
    /\ totnumphoton' = 0
    /\ totweight' = 0
    /\ typecount' = NoCounts
    /\ other_ranks' = 0
    /\ handed' = NoHandover
    /\ iterations' = iterations + 1
    /\ pc' = "substep_test"
    /\ UNCHANGED notmainvars
    /\ UNCHANGED <<random_generators, config, loop, it_converged, jobs, market_weight,
                   worker, solver, solver_log, iter_substeps, iter_solves,
                   snapshots>>

\* while (!convergence_checker->is_converged(totnumphoton))
SubstepTest ==
    /\ pc = "substep_test"
    /\ \E conv \in (IF numsubstep < MaxSubsteps THEN BOOLEAN ELSE {TRUE}) :
          pc' = IF conv THEN "shooting_done" ELSE "dispatch"
    /\ UNCHANGED notmainvars
    /\ UNCHANGED <<countvars, random_generators, config, numphoton, numphoton_from, grid, loop,
                   it_converged, lnumphoton, numsubstep, totnumphoton,
                   totweight, jobs, market_weight, worker, solver,
                   solver_log, iter_substeps, iter_solves, iterations,
                   snapshots>>

\* photonshootjobs.set_numphoton(local_numphoton) and the call of
\* workdistributor.do_in_parallel
DispatchSubstep ==
    /\ pc = "dispatch"
    /\ jobs' = distribute(lnumphoton)
    /\ other_ranks' = other_ranks + lnumphoton - distribute(lnumphoton)
    /\ handed' = [handed EXCEPT
                      !.dispatched = @ + lnumphoton,
                      !.elsewhere = @ + lnumphoton - distribute(lnumphoton)]
    /\ iter_substeps' = iter_substeps + 1
    /\ pc' = "in_parallel"
    /\ UNCHANGED notmainvars
    /\ UNCHANGED <<typecount, random_generators, config, numphoton, numphoton_from, grid, loop,
                   it_converged, lnumphoton, numsubstep, totnumphoton,
                   totweight, market_weight, worker, solver,
                   solver_log, iter_solves, iterations, snapshots>>

\* a worker thread takes the next job from the job market
TakeJob(w) ==
    /\ pc = "in_parallel"
    /\ worker[w] = 0
    /\ jobs > 0
    /\ worker' = [worker EXCEPT ![w] = Min(JobSize, jobs)]
    /\ jobs' = jobs - Min(JobSize, jobs)
    /\ UNCHANGED notmainvars
    /\ UNCHANGED <<countvars, random_generators, config, pc, numphoton, numphoton_from, grid, loop,
                   it_converged, lnumphoton, numsubstep, totnumphoton,
                   totweight, market_weight, solver, solver_log,
                   iter_substeps, iter_solves, iterations, snapshots>>

\* a worker thread executes its job: the photons are propagated through the
\* grid and counted
ExecuteJob(w) ==
    /\ worker[w] > 0
    /\ grid' = accumulate(grid, worker[w])
    /\ market_weight' = market_weight + worker[w]
    /\ handed' = [handed EXCEPT !.shot = @ + worker[w]]
    /\ worker' = [worker EXCEPT ![w] = 0]
    /\ random_generators' =
           [random_generators EXCEPT ![w].drawn = @ + worker[w]]
    /\ UNCHANGED notmainvars
    /\ UNCHANGED <<typecount, other_ranks, config, pc, numphoton, numphoton_from, loop,
                   it_converged, lnumphoton, numsubstep, totnumphoton,
                   totweight, jobs, solver, solver_log,
                   iter_substeps, iter_solves, iterations, snapshots>>

\* do_in_parallel returns when no job is left and no worker is busy
ParallelDone == jobs = 0 /\ \A w \in Workers : worker[w] = 0

\* return of do_in_parallel and the rest of the substep
JoinSubstep ==
    /\ pc = "in_parallel"
    /\ ParallelDone
    /\ totnumphoton' =
           totnumphoton + counted_size(lnumphoton, distribute(lnumphoton))
    /\ totweight' = update_counters(totweight, market_weight)
    /\ typecount' = update_counters(typecount, market_weight)
    /\ market_weight' = 0
    /\ random_generators' = rewound(random_generators)
    /\ lnumphoton' \in PhotonCounts
    /\ numsubstep' = numsubstep + 1
    /\ pc' = "substep_test"
    /\ UNCHANGED notmainvars
    /\ UNCHANGED <<other_ranks, handed, config, numphoton, numphoton_from, grid, loop,
                   it_converged, jobs, worker, solver, solver_log,
                   iter_substeps, iter_solves, iterations, snapshots>>

\* after the substep loop: lnumphoton = totnumphoton, the sums of the
\* counters and of the accumulators of the grid over the processes, and
\* the statistics
ShootingDone ==
    /\ pc = "shooting_done"
    /\ lnumphoton' = totnumphoton
    /\ totweight' = reduce(totweight, other_ranks)
    /\ typecount' = reduce(typecount, other_ranks)
    /\ grid' = [grid EXCEPT !.acc = reduce(@, other_ranks)]
    /\ other_ranks' = 0
    /\ pc' = "solve"
    /\ UNCHANGED notmainvars
    /\ UNCHANGED <<handed, random_generators, config, numphoton, numphoton_from, loop,
                   it_converged, numsubstep, totnumphoton,
                   jobs, market_weight, worker, solver, solver_log,
                   iter_substeps, iter_solves, iterations, snapshots>>

\* call of the solver of this iteration
SolverStart ==
    /\ pc = "solve"
    /\ solver' = IF UseTemperatureCalculator(calculate_temperature, loop)
                 THEN "temperature"
                 ELSE "ionization"
    /\ solver_log' = Append(solver_log, <<loop, solver'>>)
    /\ handed' = [handed EXCEPT !.solver_weight = totweight]
    /\ iter_solves' = iter_solves + 1
    /\ pc' = "solving"
    /\ UNCHANGED notmainvars
    /\ UNCHANGED <<typecount, other_ranks, random_generators, config, numphoton, numphoton_from, grid, loop,
                   it_converged, lnumphoton, numsubstep, totnumphoton,
                   totweight, jobs, market_weight, worker,
                   iter_substeps, iterations, snapshots>>

\* return of the solver
SolverEnd ==
    /\ pc = "solving"
    /\ grid' \in SolverResults(grid, solver)
    /\ solver' = "idle"
    /\ pc' = "end_loop"
    /\ UNCHANGED notmainvars
    /\ UNCHANGED <<countvars, random_generators, config, numphoton, numphoton_from, loop,
                   it_converged, lnumphoton, numsubstep, totnumphoton,
                   totweight, jobs, market_weight, worker, solver_log,
                   iter_substeps, iter_solves, iterations, snapshots>>

\* end of the loop body: the guess for the next number of photons, ++loop
EndLoop ==
    /\ pc = "end_loop"
    /\ numphoton' \in PhotonCounts
    /\ numphoton_from' = last_checker
    /\ handed' = [handed EXCEPT !.request = lnumphoton]
    /\ loop' = loop + 1
    /\ iter_substeps' = 0
    /\ iter_solves' = 0
    /\ pc' = "loop_test"
    /\ UNCHANGED notmainvars
    /\ UNCHANGED <<typecount, other_ranks, random_generators, config, grid, it_converged, lnumphoton, numsubstep,
                   totnumphoton, totweight, jobs, market_weight, worker,
                   solver, solver_log, iterations, snapshots>>

\* writer->write(loop - 1, params) after the loop
WriteFinalSnapshot ==
    /\ pc = "after_loop"
    /\ snapshots' = IF write_output
                    THEN write(snapshots, FinalSnapshotIndex(loop))
                    ELSE snapshots
    /\ pc' = "finish"
    /\ UNCHANGED notmainvars
    /\ UNCHANGED <<countvars, warnings, randomvars, dry_run, have_mpi, rank, sourcedistribution, spectrum,
                   continuoussource, continuousspectrum, source_constructed,
                   nloop, calculate_temperature, params_dumped, exit_code,
                   numphoton, numphoton_from, grid, loop, it_converged,
                   lnumphoton, numsubstep, totnumphoton, totweight, jobs,
                   market_weight, worker, solver, solver_log, iter_substeps,
                   iter_solves, iterations>>

\* the collaborators are deleted and main returns 0
Finish ==
    /\ pc = "finish"
    /\ exit_code' = "0"
    /\ pc' = "done"
    /\ UNCHANGED notmainvars
    /\ UNCHANGED <<countvars, warnings, randomvars, dry_run, have_mpi, rank, sourcedistribution, spectrum,
                   continuoussource, continuousspectrum, source_constructed,
                   nloop, calculate_temperature, params_dumped,
                   numphoton, numphoton_from, grid, loop, it_converged,
                   lnumphoton, numsubstep, totnumphoton, totweight, jobs,
                   market_weight, worker, solver, solver_log, iter_substeps,
                   iter_solves, iterations, snapshots>>

\* ------------------------------------------------------------------------
\* PhotonSource::reemit
\* ------------------------------------------------------------------------

\* Probabilities and uniform draws are multiples of 1/DrawSteps: the draw u
\* stands for u/DrawSteps in [0,1), the probability p for p/DrawSteps.
Draws == 0 .. DrawSteps - 1

\* the temperatures of the cells (perfect squares, K)
Temperatures == {6400, 10000}

\* the square roots of the temperatures
SquareRoots == [T \in Temperatures |-> CHOOSE r \in 0 .. MaxSqrt : r * r = T]

\* sqrt(T)
sqrt(T) == SquareRoots[T]

\* frequency sampled from the given spectrum at the given temperature
RandomFrequency(spec, T) == [spectrum |-> spec, T |-> T, hz |-> 0]

\* the fixed frequency of the 19.8eV line
LineFrequency == [spectrum |-> "line", T |-> 0, hz |-> LineTHz]

\* _cross_sections.get_cross_section(ion, energy): H Lyman continuum photons
\* do not ionize helium, the helium photons ionize both
get_cross_section(ion, energy) ==
    IF ion = "H_n"
    THEN (IF energy.spectrum = "HLyc" THEN 2 ELSE 1)
    ELSE (IF energy.spectrum = "HLyc" THEN 0 ELSE HeCrossSection)

\* mutant: the helium correction keeps the value of the old frequency
set_cross_sections_uncorrected(ph, energy) ==
    [ph EXCEPT !.cross_section_H_n = get_cross_section("H_n", energy),
               !.cross_section_He_n = get_cross_section("He_n", energy)]

\* PhotonSource::set_cross_sections
set_cross_sections(ph, energy) ==
    [ph EXCEPT !.cross_section_H_n = get_cross_section("H_n", energy),
               !.cross_section_He_n = get_cross_section("He_n", energy),
               !.cross_section_He_corr =
                   helium_abundance * get_cross_section("He_n", energy)]

\* cell.get_pHe_em(i)
get_pHe_em(c, i) == c.pHe_em[i + 1]

\* x <= pHabs for the draw x = u/DrawSteps, with
\*   pHabs = 1 / (1 + xHe * AHe * sigmaHe / xH / sigmaH)
\* a = xH * sigmaH and b = xHe * AHe * sigmaHe (AHe in tenths).  The quotient
\* is 0/0 = NaN when a = b = 0 and the comparison with NaN is false; it is
\* infinite when only a = 0, then pHabs = 0.
DrawAtMostPHabs(u, ph, c) ==
    LET a == c.ionic_fraction_H_n * ph.cross_section_H_n * AbundanceUnit
        b == c.ionic_fraction_He_n * helium_abundance * ph.cross_section_He_n
    IN  IF a = 0 /\ b = 0
        THEN FALSE
        ELSE u * (a + b) <= DrawSteps * a

\* x < pHots for the draw x = u/DrawSteps, with
\*   pHots = 1 / (1 + 77 * xHe / sqrt(T) / xH)
\* (false when xH = 0: pHots is 0 or NaN)
DrawBelowPHots(u, c) ==
    u * (sqrt(c.temperature) * c.ionic_fraction_H_n
            + HeLyaFactor * c.ionic_fraction_He_n)
       < DrawSteps * sqrt(c.temperature) * c.ionic_fraction_H_n

\* x < 0.56 for the draw x = u/DrawSteps
DrawBelowTwoPhotonFraction(u) == u * 100 < DrawSteps * TwoPhotonPercent

\* mutant: the photon escapes but its type is not set
photon_escapes_untyped(ph, n, b) ==
    [photon |-> ph, ret |-> FALSE, ndraws |-> n, branch |-> b]

\* "photon escapes": photon.set_type(PHOTONTYPE_ABSORBED); return false
photon_escapes(ph, n, b) ==
    [photon |-> [ph EXCEPT !.type = "ABSORBED"],
     ret |-> FALSE, ndraws |-> n, branch |-> b]

\* the end of reemit for a photon that got a new type and frequency
photon_reemitted(ph, type, new_frequency, n, b) ==
    [photon |-> set_cross_sections(
                   [ph EXCEPT !.type = type,
                              !.energy = new_frequency,
                              !.direction = "drawn_by_reemit"],
                   new_frequency),
     ret |-> TRUE, ndraws |-> n, branch |-> b]

\* mutant: the draw has to be strictly below pHion
hydrogen_absorption_strict(ph, c, u) ==
    IF u < c.pHion
    THEN photon_reemitted(ph, "DIFFUSE_HI",
                          RandomFrequency("HLyc", c.temperature), 2, "H_Lyc")
    ELSE photon_escapes(ph, 2, "H_escape")

\* photon absorbed by hydrogen (PhotonSource.cpp:329-340)
hydrogen_absorption(ph, c, u) ==
    IF u <= c.pHion
    THEN photon_reemitted(ph, "DIFFUSE_HI",
                          RandomFrequency("HLyc", c.temperature), 2, "H_Lyc")
    ELSE photon_escapes(ph, 2, "H_escape")

\* mutant: the thresholds are compared strictly
helium_channel_strict(c, u) ==
    IF u < get_pHe_em(c, 0) THEN 0
    ELSE IF u < get_pHe_em(c, 1) THEN 1
    ELSE IF u < get_pHe_em(c, 2) THEN 2
    ELSE IF u < get_pHe_em(c, 3) THEN 3
    ELSE 4

\* the branch of the helium absorption the draw selects: the index of the
\* first of the cumulative probabilities pHe_em the draw does not exceed,
\* 4 if it exceeds them all
helium_channel(c, u) ==
    IF u <= get_pHe_em(c, 0) THEN 0
    ELSE IF u <= get_pHe_em(c, 1) THEN 1
    ELSE IF u <= get_pHe_em(c, 2) THEN 2
    ELSE IF u <= get_pHe_em(c, 3) THEN 3
    ELSE 4

\* He 2-photon continuum after pHe_em(2) (PhotonSource.cpp:354-364)
helium_two_photon(ph, c, u) ==
    IF DrawBelowTwoPhotonFraction(u)
    THEN photon_reemitted(ph, "DIFFUSE_HeI",
                          RandomFrequency("He2pc", c.temperature), 3, "He_2pc")
    ELSE photon_escapes(ph, 3, "He_2pc_escape")

\* HeI Ly-alpha absorbed on the spot (PhotonSource.cpp:375-385)
lyman_alpha_on_the_spot(ph, c, u) ==
    IF u <= c.pHion
    THEN photon_reemitted(ph, "DIFFUSE_HI",
                          RandomFrequency("HLyc", c.temperature), 4,
                          "HeLya_H_Lyc")
    ELSE photon_escapes(ph, 4, "HeLya_H_escape")

\* HeI Ly-alpha converted to the He 2-photon continuum
\* (PhotonSource.cpp:388-398): get_random_frequency is called without a
\* temperature
lyman_alpha_two_photon(ph, c, u) ==
    IF DrawBelowTwoPhotonFraction(u)
    THEN photon_reemitted(ph, "DIFFUSE_HeI",
                          RandomFrequency("He2pc", DefaultTemperature), 4,
                          "HeLya_2pc")
    ELSE photon_escapes(ph, 4, "HeLya_2pc_escape")

\* photon absorbed by helium (PhotonSource.cpp:342-406); u2, u3, u4 are the
\* next draws of the random generator, in the order they are used
helium_absorption(ph, c, u2, u3, u4) ==
    CASE helium_channel(c, u2) = 0 ->
            photon_reemitted(ph, "DIFFUSE_HeI",
                             RandomFrequency("HeLyc", c.temperature), 2,
                             "He_Lyc")
      [] helium_channel(c, u2) = 1 ->
            photon_reemitted(ph, "DIFFUSE_HeI", LineFrequency, 2, "He_line")
      [] helium_channel(c, u2) = 2 ->
            helium_two_photon(ph, c, u3)
      [] helium_channel(c, u2) = 3 ->
            IF DrawBelowPHots(u3, c)
            THEN lyman_alpha_on_the_spot(ph, c, u4)
            ELSE lyman_alpha_two_photon(ph, c, u4)
      [] OTHER ->
            photon_escapes(ph, 2, "He_defensive")

\* PhotonSource::reemit with the draws u[1..4] of the random generator
reemit(ph, c, u) ==
    IF DrawAtMostPHabs(u[1], ph, c)
    THEN hydrogen_absorption(ph, c, u[2])
    ELSE helium_absorption(ph, c, u[2], u[3], u[4])

\* a photon as the source emits it, with its cross sections
PrimaryPhotons ==
    [type : {"PRIMARY"},
     energy : {RandomFrequency("source", 0)},
     weight : {1},
     position : {"source"},
     direction : {"drawn_by_source"},
     cross_section_H_n : {0, 1},
     cross_section_He_n : {0, HeCrossSection},
     cross_section_He_corr : {0}]

\* Photon constructed by get_random_photon: set_cross_sections fills the
\* helium correction
NewPhotons ==
    {[ph EXCEPT !.cross_section_He_corr =
                   helium_abundance * ph.cross_section_He_n] :
        ph \in PrimaryPhotons}

\* the cells: neutral fractions (in units of 1e-6), temperature and
\* reemission probabilities
Cells ==
    [ionic_fraction_H_n : {0, 1},
     ionic_fraction_He_n : {0, 1},
     temperature : Temperatures,
     pHion : {1, DrawSteps - 1},
     pHe_em : {<<0, 1, 2, DrawSteps>>, <<1, 1, 2, 2>>}]

\* the photon of the initial state, before anything is known about it
NoPhoton ==
    [type |-> "PRIMARY", energy |-> RandomFrequency("source", 0),
     weight |-> 1, position |-> "source", direction |-> "drawn_by_source",
     cross_section_H_n |-> 0, cross_section_He_n |-> 0,
     cross_section_He_corr |-> 0]

\* no photon is being reemitted
ReemitIdle ==
    /\ helium_abundance = 0
    /\ cell = CHOOSE c \in Cells : TRUE
    /\ photon = NoPhoton
    /\ phase = "idle"
    /\ photon_in = NoPhoton
    /\ ret = FALSE
    /\ rdraws = <<>>
    /\ branch = "none"

\* a photon emitted by the source was absorbed in a cell
InitReemit ==
    /\ helium_abundance \in {0, 1}
    /\ cell \in Cells
    /\ photon \in NewPhotons
    /\ phase = "interact"
    /\ photon_in = photon
    /\ ret = FALSE
    /\ rdraws = <<>>
    /\ branch = "none"

\* the driver does not run
MainIdle ==
    /\ dry_run = FALSE
    /\ have_mpi = FALSE
    /\ rank = 0
    /\ MainLocals

\* the draws of the random generator a call of reemit can meet; only the
\* draws the call uses are enumerated, the others are written as 0
DrawSequences(ph, c) ==
    UNION {LET n == reemit(ph, c, <<u1, u2, 0, 0>>).ndraws
           IN  {<<u1, u2, u3, u4>> :
                   u3 \in (IF n >= 3 THEN Draws ELSE {0}),
                   u4 \in (IF n >= 4 THEN Draws ELSE {0})} :
              u1 \in Draws, u2 \in Draws}

\* the transport kernel calls source.reemit(photon, cell, rng)
Reemit ==
    /\ phase = "interact"
    /\ \E u \in DrawSequences(photon, cell) :
          LET r == reemit(photon, cell, u)
          IN  /\ photon' = r.photon
              /\ ret' = r.ret
              /\ rdraws' = SubSeq(u, 1, r.ndraws)
              /\ branch' = r.branch
    /\ photon_in' = photon
    /\ phase' = "returned"
    /\ UNCHANGED <<helium_abundance, cell>>
    /\ UNCHANGED notreemitvars

\* reemit returned true: the photon travels on and is absorbed again
Propagate ==
    /\ phase = "returned"
    /\ ret = TRUE
    /\ phase' = "interact"
    /\ photon_in' = photon
    /\ ret' = FALSE
    /\ rdraws' = <<>>
    /\ branch' = "none"
    /\ UNCHANGED <<helium_abundance, cell, photon>>
    /\ UNCHANGED notreemitvars

\* reemit returned false: the kernel stops, the next photon of the source is
\* propagated
NextPhoton ==
    /\ phase = "returned"
    /\ ret = FALSE
    /\ photon' \in NewPhotons
    /\ phase' = "interact"
    /\ photon_in' = photon'
    /\ rdraws' = <<>>
    /\ branch' = "none"
    /\ UNCHANGED <<helium_abundance, cell, ret>>
    /\ UNCHANGED notreemitvars

NextReemit ==
    \/ Reemit
    \/ Propagate
    \/ NextPhoton

\* ------------------------------------------------------------------------
\* The photon source: construction, photon budget and sampling
\* (src/src/PhotonSource.cpp)
\* ------------------------------------------------------------------------

\* the value 1. of a source weight or of a cumulative probability: weights
\* are counted in units of 5e-10 (PhotonSource.cpp:82)
One == 2000000000

\* the tolerance 1.e-9 on the sum of the weights, in the same units
\* (PhotonSource.cpp:82)
WeightTolerance == 2

\* minimum number of photons per discrete source (PhotonSource.cpp:154)
MinPhotonsPerSource == 10

\* minimum number of photons of the continuous source (PhotonSource.cpp:164)
MinContinuousPhotons == 100

\* the value 0.5 of discrete_fraction and of the channel test, as the
\* divisor of the budget and of the draw (PhotonSource.cpp:131, 258)
DiscreteFractionInverse == 2

\* weights of the sources of a distribution (distribution->get_weight(i))
WeightLists ==
    {<<One>>,
     <<One - 2>>,
     <<One \div 2, One \div 2>>,
     <<One \div 2, One \div 2 + 1>>,
     <<One \div 4, One \div 4, One \div 2>>,
     <<One + 1, 0>>,
     <<One \div 2, One \div 2 + 3>>,
     <<One \div 2, One \div 4>>}

\* the distribution argument of the constructor when it is nullptr
NoDistribution == [null |-> TRUE, weights |-> <<>>, luminosity |-> 0]

\* the distributions the constructor can be given
Distributions ==
    {NoDistribution} \cup
    [null : {FALSE}, weights : WeightLists, luminosity : {0, 1000}]

\* the continuous source argument: nullptr, or a source whose surface area
\* times the total flux of its spectrum is the luminosity
ContinuousSources ==
    {[null |-> TRUE, luminosity |-> 0], [null |-> FALSE, luminosity |-> 3000]}

\* _continuous_number_of_photons is not in the initializer list of the
\* constructor and is not assigned in its body: it holds an indeterminate
\* value until set_number_of_photons assigns it
IndeterminateCounts == {0, 1, 150}

\* arguments of set_number_of_photons
PhotonBudgets == {0, 1, 15, 20, 101, 250}

Abs(x) == IF x < 0 THEN 0 - x ELSE x

\* a photon weight luminosity / number_of_photons, kept as a fraction
Ratio(luminosity, number) == [num |-> luminosity, den |-> number]

\* the loop over the sources of the constructor: the first n cumulative
\* probabilities (PhotonSource.cpp:72-81)
RECURSIVE running_sums(_, _)
running_sums(weights, n) ==
    IF n = 0 THEN <<>>
    ELSE IF n = 1 THEN <<weights[1]>>
    ELSE LET p == running_sums(weights, n - 1)
         IN  Append(p, p[n - 1] + weights[n])

\* PhotonSourceDistribution::get_position: the position of source i, in
\* tenths of the box size; the sources lie at different positions and the
\* first is the single star of the unit test at (0.5, 0.5, 0.5)
get_position(i) == [x |-> 5 * i, y |-> 5, z |-> 5]

\* the position that get_random_incoming_direction of the continuous source
\* returns: a point of the surface of the box
surface_position == [x |-> 0, y |-> 0, z |-> 0]

\* the members before the constructor has run
NoSource ==
    [state |-> "unconstructed",
     discrete_positions |-> <<>>,
     discrete_weights |-> <<>>,
     discrete_probabilities |-> <<>>,
     discrete_luminosity |-> 0,
     continuous_luminosity |-> 0,
     continuous_source |-> FALSE,
     discrete_number_of_photons |-> 0,
     continuous_number_of_photons |-> 0,
     discrete_photon_weight |-> Ratio(1, 1),
     continuous_photon_weight |-> Ratio(1, 1),
     budget_set |-> FALSE]

\* PhotonSource::PhotonSource (PhotonSource.cpp:54-116)
PhotonSource(distribution, continuous_source, indeterminate) ==
    LET n    == Len(distribution.weights)
        sums == running_sums(distribution.weights, n)
        back == IF n > 0 THEN sums[n] ELSE One
        bad  == (~distribution.null) /\ Abs(back - One) > WeightTolerance
    IN  [state |-> IF bad THEN "aborted" ELSE "constructed",
         discrete_positions |-> [i \in 1 .. n |-> get_position(i)],
         discrete_weights |-> distribution.weights,
         discrete_probabilities |->
             IF n > 0 /\ ~bad THEN [sums EXCEPT ![n] = One] ELSE sums,
         discrete_luminosity |->
             IF bad THEN 0 ELSE distribution.luminosity,
         continuous_luminosity |->
             IF bad THEN 0 ELSE continuous_source.luminosity,
         continuous_source |-> ~continuous_source.null,
         discrete_number_of_photons |-> 0,
         continuous_number_of_photons |-> indeterminate,
         discrete_photon_weight |-> Ratio(1, 1),
         continuous_photon_weight |-> Ratio(1, 1),
         budget_set |-> FALSE]

\* mutant: the continuous share is rounded down like the discrete share
split_number_of_photons_rounded(src, number_of_photons) ==
    IF src.discrete_luminosity > 0 /\ src.continuous_luminosity > 0
    THEN [src EXCEPT
             !.discrete_number_of_photons =
                 number_of_photons \div DiscreteFractionInverse,
             !.continuous_number_of_photons =
                 number_of_photons \div DiscreteFractionInverse]
    ELSE IF src.discrete_luminosity > 0
         THEN [src EXCEPT !.discrete_number_of_photons = number_of_photons]
         ELSE [src EXCEPT !.continuous_number_of_photons = number_of_photons]

\* the photons of the next iteration are divided over the two channels
\* (PhotonSource.cpp:133-150); the product of the double 0.5 and the
\* unsigned number is truncated when it is stored in the unsigned member
split_number_of_photons(src, number_of_photons) ==
    IF src.discrete_luminosity > 0 /\ src.continuous_luminosity > 0
    THEN LET discrete == number_of_photons \div DiscreteFractionInverse
         IN  [src EXCEPT
                 !.discrete_number_of_photons = discrete,
                 !.continuous_number_of_photons =
                     number_of_photons - discrete]
    ELSE IF src.discrete_luminosity > 0
         THEN [src EXCEPT !.discrete_number_of_photons = number_of_photons]
         ELSE [src EXCEPT !.continuous_number_of_photons = number_of_photons]

\* at least 10 photons per discrete source, and the weight of a discrete
\* photon (PhotonSource.cpp:152-160)
discrete_minimum(src) ==
    IF src.discrete_number_of_photons > 0
    THEN LET least == MinPhotonsPerSource * Len(src.discrete_weights)
             number == IF src.discrete_number_of_photons < least
                       THEN least
                       ELSE src.discrete_number_of_photons
         IN  [src EXCEPT
                 !.discrete_number_of_photons = number,
                 !.discrete_photon_weight =
                     Ratio(src.discrete_luminosity, number)]
    ELSE src

\* at least 100 photons for the continuous source, and the weight of a
\* continuous photon (PhotonSource.cpp:162-170)
continuous_minimum(src) ==
    IF src.continuous_number_of_photons > 0
    THEN LET number == IF src.continuous_number_of_photons
                            < MinContinuousPhotons
                       THEN MinContinuousPhotons
                       ELSE src.continuous_number_of_photons
         IN  [src EXCEPT
                 !.continuous_number_of_photons = number,
                 !.continuous_photon_weight =
                     Ratio(src.continuous_luminosity, number)]
    ELSE src

\* PhotonSource::set_number_of_photons (PhotonSource.cpp:128-179): the
\* object after the call, the counts before the minimums were applied and
\* the return value
set_number_of_photons(src, number_of_photons) ==
    LET shared  == split_number_of_photons(src, number_of_photons)
        settled == continuous_minimum(discrete_minimum(shared))
    IN  [source |-> [settled EXCEPT !.budget_set = TRUE],
         discrete_share |-> shared.discrete_number_of_photons,
         continuous_share |-> shared.continuous_number_of_photons,
         ret |-> settled.discrete_number_of_photons
                     + settled.continuous_number_of_photons]

\* the channel of the next photon (PhotonSource.cpp:254-268); u is the
\* uniform draw, which is only made when both channels have photons
discrete_channel(src, u) ==
    IF src.discrete_number_of_photons > 0
    THEN IF src.continuous_number_of_photons > 0
         THEN u * DiscreteFractionInverse < DrawSteps
         ELSE TRUE
    ELSE FALSE

\* the scan of the cumulative probabilities (PhotonSource.cpp:272-275): the
\* index of the source, counted from 1, or 0 when the scan leaves the array
RECURSIVE source_index_strict(_, _, _)
source_index_strict(probabilities, x, i) ==
    IF i > Len(probabilities) THEN 0
    ELSE IF x >= probabilities[i]
         THEN source_index_strict(probabilities, x, i + 1)
         ELSE i

RECURSIVE source_index(_, _, _)
source_index(probabilities, x, i) ==
    IF i > Len(probabilities) THEN 0
    ELSE IF x > probabilities[i]
         THEN source_index(probabilities, x, i + 1)
         ELSE i

\* PhotonSource::get_random_photon (PhotonSource.cpp:229-295) for the draws
\* u1 (channel) and u2 (source); invalid marks an access outside of the
\* array of sources or through the null continuous source
get_random_photon(src, u1, u2) ==
    IF discrete_channel(src, u1)
    THEN LET i == source_index(src.discrete_probabilities,
                               u2 * (One \div DrawSteps), 1)
         IN  [channel |-> "discrete", index |-> i,
              position |-> IF i = 0 THEN surface_position
                           ELSE src.discrete_positions[i],
              weight |-> src.discrete_photon_weight,
              invalid |-> i = 0]
    ELSE [channel |-> "continuous", index |-> 0,
          position |-> surface_position,
          weight |-> src.continuous_photon_weight,
          invalid |-> ~src.continuous_source]

\* no operation on the source yet
NoCall == [op |-> "none"]

SourceIdle ==
    /\ source = NoSource
    /\ call = NoCall

\* main constructs the source (CMacIonize.cpp:239)
Construct ==
    /\ source.state = "unconstructed"
    /\ \E distribution \in Distributions,
          continuous_source \in ContinuousSources,
          indeterminate \in IndeterminateCounts :
          /\ source' = PhotonSource(distribution, continuous_source,
                                    indeterminate)
          /\ call' = [op |-> "PhotonSource",
                      distribution |-> distribution,
                      sum |-> IF distribution.null
                              THEN One
                              ELSE running_sums(distribution.weights,
                                     Len(distribution.weights))
                                       [Len(distribution.weights)]]
    /\ UNCHANGED notsourcevars

\* the number of photons of the next iteration is set
SetNumberOfPhotons ==
    /\ source.state = "constructed"
    /\ \E number_of_photons \in PhotonBudgets :
          LET r == set_number_of_photons(source, number_of_photons)
          IN  /\ source' = r.source
              /\ call' = [op |-> "set_number_of_photons",
                          number_of_photons |-> number_of_photons,
                          discrete_share |-> r.discrete_share,
                          continuous_share |-> r.continuous_share,
                          before |-> source,
                          ret |-> r.ret]
    /\ UNCHANGED notsourcevars

\* a photon is emitted; an invalid access is undefined behaviour: the
\* process is killed or goes on with an arbitrary photon
GetRandomPhoton ==
    /\ source.state = "constructed"
    /\ \E u1 \in Draws, u2 \in Draws :
          LET p == get_random_photon(source, u1, u2)
          IN  /\ call' = [op |-> "get_random_photon", u |-> u1, u2 |-> u2,
                          photon |-> p]
              /\ source' \in (IF p.invalid
                              THEN {source,
                                    [source EXCEPT !.state = "crashed"]}
                              ELSE {source})
    /\ UNCHANGED notsourcevars

NextSource ==
    \/ Construct
    \/ SetNumberOfPhotons
    \/ GetRandomPhoton

\* ------------------------------------------------------------------------
\* The reemission probabilities of a cell
\* (src/src/DensityGridInterface.hpp)
\* ------------------------------------------------------------------------

\* number of doubles per unit below 0.5: the floating point operations
\* round to the nearest representable value, which is a multiple of
\* 1 / Precision below 0.5 and of 2 / Precision from 0.5 to 1
Precision == 256

\* the initial neutral fractions 1.e-6, the unit of the neutral fractions
\* (DensityGridInterface.hpp:100)
InitialNeutralFraction == 1

\* temperatures of a cell (in K)
ProbTemperatures ==
    {1000, 5000, 6400, 8000, 10000, 20000, 43650, 100000, 1000000, 2000000,
     4000000}

\* helium abundances, in tenths
HeliumAbundances == {0, 1, 2}

\* neutral fractions a solver can leave in a cell, in units of 1e-6
NeutralFractions == {0, 1, 500000}

\* pow(T * 1.e-4, -e / 1000), rounded to the nearest thousandth and counted
\* in thousandths, for the exponents of set_reemission_probabilities
PowTable ==
    530 :> [T \in ProbTemperatures |-> CASE T = 1000 -> 3388 [] T = 5000 -> 1444 [] T = 6400 -> 1267 [] T = 8000 -> 1126 [] T = 10000 -> 1000 [] T = 20000 -> 693 [] T = 43650 -> 458 [] T = 100000 -> 295 [] T = 1000000 -> 87 [] T = 2000000 -> 60 [] T = 4000000 -> 42]
    @@
    700 :> [T \in ProbTemperatures |-> CASE T = 1000 -> 5012 [] T = 5000 -> 1625 [] T = 6400 -> 1367 [] T = 8000 -> 1169 [] T = 10000 -> 1000 [] T = 20000 -> 616 [] T = 43650 -> 356 [] T = 100000 -> 200 [] T = 1000000 -> 40 [] T = 2000000 -> 25 [] T = 4000000 -> 15]
    @@
    486 :> [T \in ProbTemperatures |-> CASE T = 1000 -> 3062 [] T = 5000 -> 1401 [] T = 6400 -> 1242 [] T = 8000 -> 1115 [] T = 10000 -> 1000 [] T = 20000 -> 714 [] T = 43650 -> 489 [] T = 100000 -> 327 [] T = 1000000 -> 107 [] T = 2000000 -> 76 [] T = 4000000 -> 54]
    @@
    381 :> [T \in ProbTemperatures |-> CASE T = 1000 -> 2404 [] T = 5000 -> 1302 [] T = 6400 -> 1185 [] T = 8000 -> 1089 [] T = 10000 -> 1000 [] T = 20000 -> 768 [] T = 43650 -> 570 [] T = 100000 -> 416 [] T = 1000000 -> 173 [] T = 2000000 -> 133 [] T = 4000000 -> 102]
    @@
    451 :> [T \in ProbTemperatures |-> CASE T = 1000 -> 2825 [] T = 5000 -> 1367 [] T = 6400 -> 1223 [] T = 8000 -> 1106 [] T = 10000 -> 1000 [] T = 20000 -> 732 [] T = 43650 -> 514 [] T = 100000 -> 354 [] T = 1000000 -> 125 [] T = 2000000 -> 92 [] T = 4000000 -> 67]
    @@
    695 :> [T \in ProbTemperatures |-> CASE T = 1000 -> 4955 [] T = 5000 -> 1619 [] T = 6400 -> 1364 [] T = 8000 -> 1168 [] T = 10000 -> 1000 [] T = 20000 -> 618 [] T = 43650 -> 359 [] T = 100000 -> 202 [] T = 1000000 -> 41 [] T = 2000000 -> 25 [] T = 4000000 -> 16]
    @@
    678 :> [T \in ProbTemperatures |-> CASE T = 1000 -> 4764 [] T = 5000 -> 1600 [] T = 6400 -> 1353 [] T = 8000 -> 1163 [] T = 10000 -> 1000 [] T = 20000 -> 625 [] T = 43650 -> 368 [] T = 100000 -> 210 [] T = 1000000 -> 44 [] T = 2000000 -> 28 [] T = 4000000 -> 17]

\* pow(T * 1.e-4, -e / 1000) in thousandths
pow(T, e) == PowTable[e][T]

\* the distance of two neighbouring doubles at v, in multiples of
\* 1 / Precision: a double has a fixed number of binary digits, so that the
\* distance doubles with every power of two that v reaches: it is
\* 1 / Precision below 0.5 and 2 / Precision from 0.5 to 1
RECURSIVE spacing(_)
spacing(v) == IF v < Precision \div 2 THEN 1 ELSE 2 * spacing(v \div 2)

\* v rounded to the nearest double, to the even one of two that are
\* equally near
round_double(v) ==
    LET s    == spacing(v)
        down == (v \div s) * s
    IN  IF 2 * (v - down) < s THEN down
        ELSE IF 2 * (v - down) > s THEN down + s
        ELSE IF (down \div s) % 2 = 0 THEN down ELSE down + s

\* the quotient of two doubles, rounded to the nearest double and counted
\* in multiples of 1 / Precision
fdiv(a, b) ==
    LET s == spacing((a * Precision + b \div 2) \div b)
    IN  ((a * Precision + (b * s) \div 2) \div (b * s)) * s

\* the sum of two doubles, rounded to the nearest double
fadd(x, y) == round_double(x + y)

\* the recombination rates of set_reemission_probabilities
\* (DensityGridInterface.hpp:59-70); the coefficients are counted in units
\* of 1e-16 cm^3 s^-1
alpha_1_H(T) == 1580 * pow(T, 530)

\* mutant: the total rate is computed with the coefficient of alpha_1_H
alpha_A_agn_coefficient(T) == 1580 * pow(T, 700)

alpha_A_agn(T) == 4180 * pow(T, 700)

alpha_1_He(T) == 1540 * pow(T, 486)

alpha_e_2tS(T) == 2100 * pow(T, 381)

alpha_e_2sS(T) == 206 * pow(T, 451)

alpha_e_2sP(T) == 417 * pow(T, 695)

\* the value of alphaHe that is overwritten (DensityGridInterface.hpp:67)
alphaHe_fit(T) == 4270 * pow(T, 678)

\* the value alphaHe is overwritten with (DensityGridInterface.hpp:70)
alphaHe(T) == alpha_1_He(T) + alpha_e_2tS(T) + alpha_e_2sS(T) + alpha_e_2sP(T)

\* DensityGridInterface::set_reemission_probabilities
\* (DensityGridInterface.hpp:58-76): pHion is kept as the fraction of the
\* two rates, pHe_em in multiples of 1 / Precision
set_reemission_probabilities(T, gcell) ==
    LET p0 == fdiv(alpha_1_He(T), alphaHe(T))
        p1 == fadd(p0, fdiv(alpha_e_2tS(T), alphaHe(T)))
        p2 == fadd(p1, fdiv(alpha_e_2sS(T), alphaHe(T)))
        p3 == fadd(p2, fdiv(alpha_e_2sP(T), alphaHe(T)))
    IN  [gcell EXCEPT
            !.pHion = Ratio(alpha_1_H(T), alpha_A_agn(T)),
            !.pHe_em = <<p0, p1, p2, p3>>]

\* initialize without the call of set_reemission_probabilities
initialize_stale_probabilities(initial_temperature, abundance, gcell) ==
    [gcell EXCEPT
        !.initialized = TRUE,
        !.ionic_fraction_H_n = InitialNeutralFraction,
        !.ionic_fraction_He_n = InitialNeutralFraction,
        !.temperature = initial_temperature,
        !.helium_abundance = abundance]

\* DensityGridInterface::initialize (DensityGridInterface.hpp:98-105)
initialize(initial_temperature, abundance, gcell) ==
    set_reemission_probabilities(initial_temperature,
        [gcell EXCEPT
            !.initialized = TRUE,
            !.ionic_fraction_H_n = InitialNeutralFraction,
            !.ionic_fraction_He_n = InitialNeutralFraction,
            !.temperature = initial_temperature,
            !.helium_abundance = abundance])

\* a cell before initialize
NewCell ==
    [initialized |-> FALSE,
     ionic_fraction_H_n |-> 0,
     ionic_fraction_He_n |-> 0,
     temperature |-> 0,
     helium_abundance |-> 0,
     pHion |-> Ratio(0, 1),
     pHe_em |-> <<0, 0, 0, 0>>]

\* initialize was not called yet
NoArguments == [initial_temperature |-> 0, helium_abundance |-> 0]

\* no photon was absorbed by helium in the cell yet
NoAbsorption == [happened |-> FALSE, u |-> 0, channel |-> 0]

\* the largest double below 1
LargestDraw == Precision - spacing(Precision - 1)

\* values of the uniform random double of [0, 1) that reemit compares with
\* pHe_em, in multiples of 1 / Precision
DoubleDraws ==
    {round_double((k * Precision) \div 4) : k \in 0 .. 3} \cup {LargestDraw}

ProbIdle ==
    /\ gridcell = NewCell
    /\ probs_T = 0
    /\ initialize_args = NoArguments
    /\ he_absorption = NoAbsorption

\* the grid initializes the cell
InitializeCell ==
    /\ ~gridcell.initialized
    /\ \E T \in ProbTemperatures, abundance \in HeliumAbundances :
          /\ gridcell' = initialize(T, abundance, gridcell)
          /\ probs_T' = T
          /\ initialize_args' = [initial_temperature |-> T,
                                 helium_abundance |-> abundance]
    /\ UNCHANGED he_absorption
    /\ UNCHANGED notprobvars

\* a solver sets the neutral fractions of the cell
SetNeutralFractions ==
    /\ gridcell.initialized
    /\ \E xH \in NeutralFractions, xHe \in NeutralFractions :
          gridcell' = [gridcell EXCEPT !.ionic_fraction_H_n = xH,
                                       !.ionic_fraction_He_n = xHe]
    /\ UNCHANGED <<probs_T, initialize_args, he_absorption>>
    /\ UNCHANGED notprobvars

\* the temperature solver sets the temperature of the cell and refreshes
\* its reemission probabilities
UpdateTemperature ==
    /\ gridcell.initialized
    /\ \E T \in ProbTemperatures :
          /\ gridcell' = set_reemission_probabilities(T,
                             [gridcell EXCEPT !.temperature = T])
          /\ probs_T' = T
    /\ UNCHANGED <<initialize_args, he_absorption>>
    /\ UNCHANGED notprobvars

\* a photon is absorbed by helium in the cell: reemit compares the next
\* draw with the cumulative probabilities of the cell
\* (PhotonSource.cpp:342-406)
HeliumAbsorption ==
    /\ gridcell.initialized
    /\ \E u \in DoubleDraws :
          he_absorption' = [happened |-> TRUE, u |-> u,
                            channel |-> helium_channel(gridcell, u)]
    /\ UNCHANGED <<gridcell, probs_T, initialize_args>>
    /\ UNCHANGED notprobvars

NextProbabilities ==
    \/ InitializeCell
    \/ SetNeutralFractions
    \/ UpdateTemperature
    \/ HeliumAbsorption

\* ------------------------------------------------------------------------
\* The error, warning and message macros (src/src/Error.hpp)
\* ------------------------------------------------------------------------

\* size of the line buffer of print_indent, "char line[65]" (Error.hpp:46)
LineSize == 65

\* number of blanks in front of every printed line (Error.hpp:49)
Indent == 5

\* number of blanks a tab is replaced with (Error.hpp:56)
TabSize == 4

\* a message has at most this many words and separators
MaxTokens == 3

\* characters are their codes: the terminating '\0', the separators '\t',
\* '\n' and ' ', and every code above the blank is a printing character
NUL == 0

TAB == 9

NEWLINE == 10

SPACE == 32

\* a byte of the line buffer that was never written
Indeterminate == -1

\* the k-th printing character of a message; the characters of a message
\* are all different, so that the output shows where each of them went
Letter(k) == SPACE + k

\* the lengths of the words of the messages
WordLengths == {1, 60, 64, 65}

Tokens ==
    {[kind |-> "word", len |-> n] : n \in WordLengths}
        \cup {[kind |-> "blank", len |-> c] : c \in {SPACE, TAB, NEWLINE}}

RECURSIVE TokenLists(_)
TokenLists(n) ==
    IF n = 0 THEN {<<>>}
    ELSE LET shorter == TokenLists(n - 1)
         IN  shorter \cup {Append(ts, t) : ts \in {l \in shorter :
                                                     Len(l) = n - 1},
                                           t \in Tokens}

\* the characters of a list of tokens; first is the number of the first
\* printing character
RECURSIVE text(_, _)
text(tokens, first) ==
    IF tokens = <<>> THEN <<>>
    ELSE LET t == Head(tokens)
         IN  IF t.kind = "word"
             THEN [k \in 1 .. t.len |-> Letter(first + k - 1)]
                      \o text(Tail(tokens), first + t.len)
             ELSE <<t.len>> \o text(Tail(tokens), first)

\* the formatted messages handed to the macros (the result of sprintf)
Messages == {text(ts, 1) : ts \in TokenLists(MaxTokens) \ {<<>>}}

\* the contents "char line[65]" can have before its first write
Uninitialized ==
    {[i \in 0 .. LineSize - 1 |-> NUL],
     [i \in 0 .. LineSize - 1 |-> Indeterminate]}

\* line[i] = c;  a write outside of the array does not change the array
\* and is recorded in overflow
store(s, i, c) ==
    IF i \in 0 .. LineSize - 1
    THEN [s EXCEPT !.line[i] = c]
    ELSE [s EXCEPT !.overflow = TRUE]

\* fprintf(stream, "     %-65s\n", line): the bytes of line up to the first
\* '\0'; without a '\0' in the array the read runs past its end (overread)
\* accumulated is history: the number of characters that were put into
\* line for the line that is printed
printed_line(line, accumulated) ==
    LET ends == {i \in 0 .. LineSize - 1 : line[i] = NUL}
        n == IF ends = {} THEN LineSize
             ELSE CHOOSE i \in ends : \A j \in ends : i <= j
    IN  [indent |-> Indent,
         text |-> [k \in 1 .. n |-> line[k - 1]],
         overread |-> ends = {},
         accumulated |-> accumulated]

print_line(s) ==
    [s EXCEPT !.out = Append(@, printed_line(s.line, s.length)),
              !.length = 0]

\* the inner loop that finds the end of the next word: the smallest
\* nextpos >= 1 with a separator or the end at buffer[pos + nextpos]
next_word_end(buffer, pos) ==
    LET stops == {n \in 1 .. Len(buffer) - pos - 1 :
                    buffer[pos + n + 1] \in {TAB, SPACE, NEWLINE, NUL}}
    IN  CHOOSE n \in stops : \A m \in stops : n <= m

\* the four writes of a tab
RECURSIVE expand_tab(_, _)
expand_tab(s, j) ==
    IF j = TabSize THEN s
    ELSE expand_tab([store(s, s.linepos, SPACE)
                         EXCEPT !.linepos = s.linepos + 1], j + 1)

\* the branch of a blank or a tab
separator(buffer, s) ==
    LET old_linepos == s.linepos
        written == IF buffer[s.pos + 1] = TAB
                   THEN expand_tab(s, 0)
                   ELSE [store(s, s.linepos, SPACE)
                             EXCEPT !.linepos = s.linepos + 1]
        nextpos == next_word_end(buffer, s.pos)
    IN  IF written.linepos + nextpos > LineSize
        THEN [store(written, old_linepos, NUL) EXCEPT !.linepos = LineSize,
                                                      !.length = old_linepos]
        ELSE [written EXCEPT !.length = written.linepos]

\* the branch of any other character
character(buffer, s) ==
    [store(s, s.linepos, buffer[s.pos + 1]) EXCEPT !.linepos = s.linepos + 1,
                                                   !.length = s.linepos + 1]

\* a full line is printed as it is
full_line(s) ==
    IF s.linepos = LineSize
    THEN [print_line(s) EXCEPT !.linepos = 0]
    ELSE s

\* a newline prints the line as it is
newline(s) == [print_line(s) EXCEPT !.linepos = 0, !.pos = s.pos + 1]

\* the rest of the message is printed when the scan has reached its end
last_line(s) ==
    IF s.linepos /= 0
    THEN print_line(store(s, s.linepos, NUL))
    ELSE s

\* one pass through the body of the loop over the characters of the
\* buffer; the loop has ended when buffer[pos] is the terminating '\0'
body(buffer, s) ==
    LET c == buffer[s.pos + 1]
    IN  IF c = NUL THEN s
        ELSE IF c = NEWLINE THEN newline(s)
        ELSE LET t == full_line(IF c \in {SPACE, TAB}
                                THEN separator(buffer, s)
                                ELSE character(buffer, s))
             IN  [t EXCEPT !.pos = t.pos + 1]

\* at most n passes through the body of the loop, which is left when
\* buffer[pos] is the terminating '\0'
RECURSIVE passes(_, _, _)
passes(buffer, s, n) ==
    IF n = 0 THEN s
    ELSE IF n = 1 THEN body(buffer, s)
    ELSE LET half == passes(buffer, s, n \div 2)
         IN  IF buffer[half.pos + 1] = NUL THEN half
             ELSE passes(buffer, half, n - n \div 2)

\* the loop over the characters of the buffer, which takes one pass for
\* every character, and the print of the rest of the message
scan(buffer, s) == last_line(passes(buffer, s, Len(buffer) - 1))

\* print_indent(stream, s, ...): the lines that are printed for the
\* formatted message, line0 being the contents of the line buffer at entry
print_indent(message, line0) ==
    LET s == scan(Append(message, NUL),
                  [pos |-> 0, linepos |-> 0, line |-> line0, out |-> <<>>,
                   overflow |-> FALSE, length |-> 0])
    IN  [lines |-> s.out, overflow |-> s.overflow]

\* the call has undefined behaviour: a write or a read outside of line
undefined_behaviour(p) ==
    p.overflow \/ \E k \in 1 .. Len(p.lines) : p.lines[k].overread

\* the first line of a record: file, function and line of the call and
\* the label of the macro
header(label) == [where |-> "file:function():line", label |-> label]

NoMacro == [name |-> "none", message |-> <<>>, line0 |-> <<>>]

NoOutput == [stderr |-> <<>>, stdout |-> <<>>, overflow |-> FALSE]

\* the stream a macro writes to and the label of its header
stream_of(name) == IF name = "message" THEN "stdout" ELSE "stderr"

label_of(name) ==
    CASE name = "error" -> "Error:"
      [] name = "warning" -> "Warning:"
      [] OTHER -> ""

\* what a macro does after print_indent
error_end == "aborted"

warning_end == "returned"

message_end == "returned"

\* the header and the lines of the message on the stream of the macro
record(name, message, line0) ==
    LET p == print_indent(message, line0)
    IN  [NoOutput EXCEPT ![stream_of(name)] =
                             <<header(label_of(name))>> \o p.lines,
                         !.overflow = p.overflow]

PrintIdle ==
    /\ macro = NoMacro
    /\ output = NoOutput
    /\ control = "caller"

\* a call of the macro name with a message; a call with undefined
\* behaviour ends as the macro says or in a crash
Invoke(name, end) ==
    /\ control = "caller"
    /\ \E message \in Messages, line0 \in Uninitialized :
          LET p == print_indent(message, line0)
          IN  /\ macro' = [name |-> name, message |-> message,
                           line0 |-> line0]
              /\ output' = record(name, message, line0)
              /\ \/ control' = end
                 \/ undefined_behaviour(p) /\ control' = "crashed"
    /\ UNCHANGED notprintvars

ErrorMacro == Invoke("error", error_end)

WarningMacro == Invoke("warning", warning_end)

MessageMacro == Invoke("message", message_end)

\* the caller of a warning or a message goes on
Resume ==
    /\ control = "returned"
    /\ control' = "caller"
    /\ macro' = NoMacro
    /\ output' = NoOutput
    /\ UNCHANGED notprintvars

NextError ==
    \/ ErrorMacro
    \/ WarningMacro
    \/ MessageMacro
    \/ Resume

InitReemitSpec ==
    MainIdle /\ InitReemit /\ SourceIdle /\ ProbIdle /\ PrintIdle

SpecReemit == InitReemitSpec /\ [][NextReemit]_vars

Init == InitMain /\ ReemitIdle /\ SourceIdle /\ ProbIdle /\ PrintIdle

Next ==
    \/ CheckDirty
    \/ GenerateSources
    \/ GenerateContinuousSource
    \/ Setup
    \/ WriteUsedValues
    \/ DryRunGate
    \/ InitializeGrid
    \/ WriteInitialSnapshot
    \/ LoopTest
    \/ StartLoop
    \/ SubstepTest
    \/ DispatchSubstep
    \/ \E w \in Workers : TakeJob(w)
    \/ \E w \in Workers : ExecuteJob(w)
    \/ JoinSubstep
    \/ ShootingDone
    \/ SolverStart
    \/ SolverEnd
    \/ EndLoop
    \/ WriteFinalSnapshot
    \/ Finish

Spec == Init /\ [][Next]_vars

\* the photon source on its own
InitSource ==
    MainIdle /\ ReemitIdle /\ SourceIdle /\ ProbIdle /\ PrintIdle

SpecSource == InitSource /\ [][NextSource]_vars

\* a cell of the grid on its own
InitProbabilities ==
    MainIdle /\ ReemitIdle /\ ProbIdle /\ SourceIdle /\ PrintIdle

SpecProbabilities == InitProbabilities /\ [][NextProbabilities]_vars

\* the macros of Error.hpp on their own
InitError == MainIdle /\ ReemitIdle /\ SourceIdle /\ ProbIdle /\ PrintIdle

SpecError == InitError /\ [][NextError]_vars

\* main and the worker threads keep running until the process ends
FairSpec == Spec /\ WF_vars(Next)

\* ------------------------------------------------------------------------
\* Claims about the driver
\* ------------------------------------------------------------------------

\* positions of main inside the body of the outer loop
LoopBodyPcs == {"loop_start", "substep_test", "dispatch", "in_parallel",
                "shooting_done", "solve", "solving", "end_loop"}

\* positions of main after the outer loop
AfterLoopPcs == {"after_loop", "finish"}

NoWorkerBusy == \A w \in Workers : worker[w] = 0

\* C1: a dry run writes the used-values parameter dump (on the process that
\* writes output) and returns 0 without ever initialising or resetting the
\* grid, shooting a photon, running a solver or calling the writer: the
\* accumulators of the grid stay in their zero state.
C1_DryRunGate ==
    dry_run =>
       /\ grid = NewGrid
       /\ iterations = 0
       /\ iter_substeps = 0
       /\ jobs = 0
       /\ NoWorkerBusy
       /\ solver = "idle"
       /\ solver_log = <<>>
       /\ snapshots = <<>>
       /\ pc \notin LoopBodyPcs \cup AfterLoopPcs \cup {"init_grid",
                                                       "first_snapshot"}
       /\ (pc = "done" => exit_code = "0" /\ params_dumped = write_output)

\* C1 witness: a dry run that halted after writing the parameter dump
C1_Witness ==
    dry_run /\ pc = "done" /\ params_dumped /\ exit_code = "0"

\* C2: with calculate_temperature the iterations with loop index 0 to 3 run
\* the ionization state calculator and leave the temperatures alone, every
\* iteration with loop index 4 or more runs the temperature calculator;
\* without calculate_temperature the temperature calculator never runs.
C2_WarmupSwitchover ==
    /\ \A i \in 1 .. Len(solver_log) :
          /\ solver_log[i][1] = i - 1
          /\ solver_log[i][2] =
                IF calculate_temperature /\ solver_log[i][1] >= 4
                THEN "temperature"
                ELSE "ionization"
    /\ solver = "temperature" => calculate_temperature /\ loop >= 4
    /\ solver = "ionization" => ~calculate_temperature \/ loop <= 3
    /\ grid.T_changed => calculate_temperature /\ loop >= 4
    /\ (pc = "loop_test" /\ loop <= 4) => ~grid.T_changed

\* C2 witness: loop 3 was solved at fixed temperature, loop 4 is being
\* solved by the temperature calculator
C2_Witness ==
    /\ calculate_temperature
    /\ Len(solver_log) = 5
    /\ solver_log[4] = <<3, "ionization">>
    /\ solver_log[5] = <<4, "temperature">>
    /\ solver = "temperature"

\* C3 (safety part): the body of the outer loop is only entered while
\* loop < nloop and the iteration convergence checker did not report
\* convergence, the loop is left as soon as one of the two holds and never
\* more than max_number_iterations iterations are executed.
C3_LoopBounds ==
    /\ iterations <= nloop
    /\ pc \in LoopBodyPcs => loop < nloop /\ ~it_converged
    /\ pc \in LoopBodyPcs \ {"loop_start"} => iterations = loop + 1
    /\ pc \in AfterLoopPcs => (loop >= nloop \/ it_converged)
    /\ pc \in AfterLoopPcs \cup {"loop_test"} => iterations = loop

\* C3: the outer loop stops on convergence or at max_number_iterations, and
\* (the photon number checker reporting convergence in every iteration) a
\* run that reached the loop leaves it and returns 0.
C3_LoopTerminates ==
    /\ []C3_LoopBounds
    /\ (pc = "loop_test") ~> (pc = "done" /\ exit_code = "0")

\* C3 witness: the loop was left on convergence before the cap was reached
C3_Witness ==
    /\ pc = "done"
    /\ ~dry_run
    /\ iterations >= 1
    /\ iterations < nloop
    /\ it_converged

\* C4: the accumulators of the grid are reset exactly once per outer
\* iteration, before the first substep of the iteration is dispatched and
\* after the solver of the previous iteration returned: they are zero when
\* the substep loop starts and afterwards hold photons of this iteration only.
C4_ResetOncePerIteration ==
    /\ grid.resets = iterations
    /\ pc \in LoopBodyPcs \ {"loop_start"} => grid.resets = loop + 1
    /\ pc \in {"loop_test", "loop_start"} \cup AfterLoopPcs =>
          grid.resets = loop
    /\ (iter_substeps > 0 \/ jobs > 0 \/ ~NoWorkerBusy) =>
          grid.resets = loop + 1
    /\ solver # "idle" => grid.resets = loop + 1
    /\ (pc = "substep_test" /\ numsubstep = 0) => grid.acc = 0
    /\ pc = "substep_test" => grid.acc <= totnumphoton
    /\ (pc = "substep_test" /\ ~have_mpi) => grid.acc = totnumphoton

\* C4 witness: photons are shot in a later iteration, after its reset
C4_Witness ==
    /\ loop >= 1
    /\ pc = "in_parallel"
    /\ grid.resets = loop + 1
    /\ grid.acc > 0

\* C5: the solver runs exactly once per outer iteration, after the last
\* substep returned and its counters were collected, and no photon shooting
\* job exists or runs while the solver runs.
C5_SolverExclusive ==
    /\ iter_solves <= 1
    /\ pc \in {"solving", "end_loop"} => iter_solves = 1
    /\ pc \in LoopBodyPcs \ {"solving", "end_loop"} => iter_solves = 0
    /\ solver # "idle" =>
          /\ pc = "solving"
          /\ jobs = 0
          /\ NoWorkerBusy
          /\ market_weight = 0
          /\ numsubstep = iter_substeps
          /\ totweight = grid.acc
    /\ (jobs > 0 \/ ~NoWorkerBusy) =>
          /\ pc = "in_parallel"
          /\ solver = "idle"
          /\ iter_solves = 0

\* C5 witness: the solver runs after two substeps were shot and collected
C5_Witness ==
    /\ solver # "idle"
    /\ iter_substeps = 2
    /\ totweight > 0

\* the writer calls made inside the body of the outer loop
SnapshotsInLoop ==
    {i \in 1 .. Len(snapshots) : snapshots[i].pc \in LoopBodyPcs}

\* C6 as claimed: every outer iteration emits a snapshot between its solver
\* and the iteration convergence test, so the number of snapshots emitted by
\* the iterations equals the number of executed iterations.
C6_SnapshotPerIteration ==
    (pc = "loop_test" /\ write_output) =>
        Cardinality(SnapshotsInLoop) = loop

\* C6 as amended: no snapshot is emitted inside an outer iteration; the
\* process that writes output calls the writer exactly twice in a run that
\* is not a dry run, before the loop with index 0 and after the loop with
\* the unsigned value loop - 1.
C6_SnapshotsBeforeAndAfter ==
    /\ SnapshotsInLoop = {}
    /\ Len(snapshots) <= 2
    /\ ~write_output => snapshots = <<>>
    /\ (write_output /\ pc \in LoopBodyPcs \cup {"loop_test", "after_loop"}) =>
          snapshots = <<[index |-> ToUInt(0), pc |-> "first_snapshot"]>>
    /\ (write_output /\ ~dry_run /\ pc \in {"finish", "done"}) =>
          snapshots = <<[index |-> ToUInt(0), pc |-> "first_snapshot"],
                        [index |-> ToUInt(loop - 1), pc |-> "after_loop"]>>

\* C6 witness: a run of three iterations ended with two snapshots
C6_Witness ==
    /\ pc = "done"
    /\ iterations = 3
    /\ Len(snapshots) = 2

\* ------------------------------------------------------------------------
\* Claims about PhotonSource::reemit
\* ------------------------------------------------------------------------

\* x_Hn * sigma_H and x_Hen * A_He * sigma_He of the last call, both in
\* tenths
HydrogenOpacity ==
    10 * cell.ionic_fraction_H_n * photon_in.cross_section_H_n

HeliumOpacity ==
    cell.ionic_fraction_He_n * helium_abundance * photon_in.cross_section_He_n

\* u1 <= p_Habs = 1 / (1 + x_Hen A_He sigma_He / (x_Hn sigma_H)), where the
\* quotient is defined
FirstDrawSelectsHydrogen ==
    /\ HydrogenOpacity > 0
    /\ rdraws[1] * (HydrogenOpacity + HeliumOpacity)
          <= DrawSteps * HydrogenOpacity

\* u1 > p_Habs, where p_Habs is defined or 0
FirstDrawSelectsHelium ==
    \/ /\ HydrogenOpacity > 0
       /\ rdraws[1] * (HydrogenOpacity + HeliumOpacity)
             > DrawSteps * HydrogenOpacity
    \/ /\ HydrogenOpacity = 0
       /\ HeliumOpacity > 0
       /\ rdraws[1] > 0

\* outcome of a call: reemitted with the given type and frequency
Reemitted(type, spec, T, hz) ==
    /\ ret = TRUE
    /\ photon.type = type
    /\ photon.energy = [spectrum |-> spec, T |-> T, hz |-> hz]

\* outcome of a call: the photon escapes
Escaped ==
    /\ ret = FALSE
    /\ photon.type = "ABSORBED"

\* C7: reemit returns false exactly when it leaves the photon ABSORBED, a
\* photon it returns true for is DIFFUSE_HI or DIFFUSE_HeI, and no call
\* leaves the photon PRIMARY.
C7_ReturnMatchesType ==
    phase = "returned" =>
       /\ (ret = FALSE) <=> (photon.type = "ABSORBED")
       /\ (ret = TRUE) => photon.type \in {"DIFFUSE_HI", "DIFFUSE_HeI"}
       /\ photon.type \in {"ABSORBED", "DIFFUSE_HI", "DIFFUSE_HeI"}

\* C7 witness: a primary photon left reemit as ABSORBED with return value
\* false
C7_Witness ==
    /\ phase = "returned"
    /\ photon_in.type = "PRIMARY"
    /\ ret = FALSE
    /\ photon.type = "ABSORBED"

\* C8: if the first draw is at most p_Habs the photon is absorbed by
\* hydrogen: a second draw of at most p_Hion makes it DIFFUSE_HI with a
\* frequency of the H Lyman continuum at the temperature of the cell
\* (return true), a larger one makes it ABSORBED (return false); if the first
\* draw exceeds p_Habs the helium branch is taken.
C8_HydrogenBranch ==
    phase = "returned" =>
       /\ FirstDrawSelectsHydrogen =>
             /\ Len(rdraws) = 2
             /\ IF rdraws[2] <= cell.pHion
                THEN Reemitted("DIFFUSE_HI", "HLyc", cell.temperature, 0)
                ELSE Escaped
       /\ FirstDrawSelectsHelium =>
             branch \notin {"H_Lyc", "H_escape"}

\* C8 witness: hydrogen and helium compete, hydrogen absorbs the photon and
\* the second draw equals p_Hion
C8_Witness ==
    /\ phase = "returned"
    /\ HeliumOpacity > 0
    /\ FirstDrawSelectsHydrogen
    /\ rdraws[2] = cell.pHion
    /\ photon.type = "DIFFUSE_HI"

\* C9: in the helium branch the second draw is compared with the cumulative
\* thresholds in order: at most p_He_em[0] gives DIFFUSE_HeI from the He
\* Lyman continuum at T, else at most p_He_em[1] gives DIFFUSE_HeI at
\* 4.788e15 Hz, else at most p_He_em[2] draws again and gives DIFFUSE_HeI
\* from the He 2-photon continuum at T below 0.56 and ABSORBED otherwise.
C9_HeliumBranch ==
    (phase = "returned" /\ FirstDrawSelectsHelium) =>
       IF rdraws[2] <= cell.pHe_em[1]
       THEN /\ Len(rdraws) = 2
            /\ Reemitted("DIFFUSE_HeI", "HeLyc", cell.temperature, 0)
       ELSE IF rdraws[2] <= cell.pHe_em[2]
       THEN /\ Len(rdraws) = 2
            /\ Reemitted("DIFFUSE_HeI", "line", 0, 4788)
       ELSE IF rdraws[2] <= cell.pHe_em[3]
       THEN /\ Len(rdraws) = 3
            /\ IF rdraws[3] * 100 < 56 * DrawSteps
               THEN Reemitted("DIFFUSE_HeI", "He2pc", cell.temperature, 0)
               ELSE Escaped
       ELSE TRUE

\* C9 witness: hydrogen and helium compete, helium absorbs the photon and
\* it is reemitted in the 2-photon continuum
C9_Witness ==
    /\ phase = "returned"
    /\ HydrogenOpacity > 0
    /\ FirstDrawSelectsHelium
    /\ cell.pHe_em[2] < rdraws[2]
    /\ rdraws[2] <= cell.pHe_em[3]
    /\ photon.type = "DIFFUSE_HeI"

\* u3 < p_spot = 1 / (1 + 77 x_Hen / (sqrt(T) x_Hn))
ThirdDrawBelowPSpot ==
    /\ cell.ionic_fraction_H_n > 0
    /\ rdraws[3] * (sqrt(cell.temperature) * cell.ionic_fraction_H_n
                       + 77 * cell.ionic_fraction_He_n)
          < DrawSteps * sqrt(cell.temperature) * cell.ionic_fraction_H_n

\* C10: in the He Lyman alpha channel (p_He_em[2] < u2 <= p_He_em[3]) a
\* draw below p_spot is handled as a hydrogen absorption, any other draw as
\* the p_He_em[2] case: a fresh draw below 0.56 gives DIFFUSE_HeI with a
\* frequency of the He 2-photon continuum sampled at T, else ABSORBED.
C10_LymanAlphaChannel ==
    (/\ phase = "returned"
     /\ FirstDrawSelectsHelium
     /\ cell.pHe_em[3] < rdraws[2]
     /\ rdraws[2] <= cell.pHe_em[4]) =>
       /\ Len(rdraws) = 4
       /\ IF ThirdDrawBelowPSpot
          THEN IF rdraws[4] <= cell.pHion
               THEN Reemitted("DIFFUSE_HI", "HLyc", cell.temperature, 0)
               ELSE Escaped
          ELSE IF rdraws[4] * 100 < 56 * DrawSteps
               THEN Reemitted("DIFFUSE_HeI", "He2pc", cell.temperature, 0)
               ELSE Escaped

\* ------------------------------------------------------------------------
\* The photon budget and the sampling of the photon source
\* ------------------------------------------------------------------------

\* the last operation was set_number_of_photons
BudgetCall == call.op = "set_number_of_photons"

\* both channels of the source have a positive luminosity
BothChannels ==
    source.discrete_luminosity > 0 /\ source.continuous_luminosity > 0

\* only the discrete sources have a positive luminosity
DiscreteOnly ==
    source.discrete_luminosity > 0 /\ source.continuous_luminosity = 0

\* only the continuous source has a positive luminosity
ContinuousOnly ==
    source.discrete_luminosity = 0 /\ source.continuous_luminosity > 0

\* C11: when both luminosities are positive, set_number_of_photons(N)
\* gives floor(N/2) photons to the discrete sources and the other N -
\* floor(N/2) to the continuous source before the minimums are applied, so
\* that the two shares add up to N also for odd N; it returns the sum of the
\* two counts after the minimums were applied, which is at least N
C11_EvenSplit ==
    (BudgetCall /\ BothChannels) =>
        /\ 2 * call.discrete_share <= call.number_of_photons
        /\ call.number_of_photons < 2 * call.discrete_share + 2
        /\ call.continuous_share
               = call.number_of_photons - call.discrete_share
        /\ call.discrete_share + call.continuous_share
               = call.number_of_photons
        /\ call.ret = source.discrete_number_of_photons
                          + source.continuous_number_of_photons
        /\ call.ret >= call.number_of_photons

\* an odd budget was split and a minimum raised one of the shares
C11_Witness ==
    /\ BudgetCall
    /\ BothChannels
    /\ call.number_of_photons % 2 = 1
    /\ call.discrete_share > 0
    /\ call.continuous_share < source.continuous_number_of_photons
    /\ call.ret > call.number_of_photons

\* C12: when exactly one channel has a positive luminosity,
\* set_number_of_photons(N) gives all N photons to that channel and leaves
\* the other channel with 0 photons, on the first call and on every later
\* one; the return value is the count of the present channel alone, and
\* every photon sampled afterwards comes from the present channel
C12_SingleChannel ==
    /\ (BudgetCall /\ DiscreteOnly) =>
           /\ call.discrete_share = call.number_of_photons
           /\ source.continuous_number_of_photons = 0
           /\ call.ret = source.discrete_number_of_photons
    /\ (BudgetCall /\ ContinuousOnly) =>
           /\ call.continuous_share = call.number_of_photons
           /\ source.discrete_number_of_photons = 0
           /\ call.ret = source.continuous_number_of_photons
    /\ (call.op = "get_random_photon" /\ source.budget_set
            /\ source.discrete_number_of_photons
                  + source.continuous_number_of_photons > 0) =>
           /\ DiscreteOnly => call.photon.channel = "discrete"
           /\ ContinuousOnly => call.photon.channel = "continuous"

\* C13: after set_number_of_photons(N), for every N >= 0, the discrete
\* sources have at least 10 photons each when their luminosity is positive,
\* the continuous source has at least 100 photons when its luminosity is
\* positive, and the photon weights are the luminosities divided by the
\* counts that were finally set
C13_Minimums ==
    BudgetCall =>
        /\ source.discrete_luminosity > 0 =>
               /\ source.discrete_number_of_photons
                      >= MinPhotonsPerSource * Len(source.discrete_weights)
               /\ source.discrete_photon_weight
                      = Ratio(source.discrete_luminosity,
                              source.discrete_number_of_photons)
        /\ source.continuous_luminosity > 0 =>
               /\ source.continuous_number_of_photons
                      >= MinContinuousPhotons
               /\ source.continuous_photon_weight
                      = Ratio(source.continuous_luminosity,
                              source.continuous_number_of_photons)

\* C14: get_random_photon takes the discrete channel exactly when the
\* uniform draw u is below N_d / (N_d + N_c), for every budget that
\* set_number_of_photons can produce, and the photon gets the weight of its
\* channel
C14_ChannelProbability ==
    (call.op = "get_random_photon" /\ source.budget_set
         /\ source.discrete_number_of_photons
               + source.continuous_number_of_photons > 0) =>
        /\ (call.photon.channel = "discrete") <=>
               (call.u * (source.discrete_number_of_photons
                              + source.continuous_number_of_photons)
                    < source.discrete_number_of_photons * DrawSteps)
        /\ call.photon.weight =
               IF call.photon.channel = "discrete"
               THEN source.discrete_photon_weight
               ELSE source.continuous_photon_weight

\* the cumulative probabilities do not decrease
NonDecreasing(p) == \A i \in 1 .. Len(p) - 1 : p[i] <= p[i + 1]

\* C15: the constructor builds the cumulative probabilities as running sums
\* of the weights; it aborts when the final sum differs from 1 by more than
\* 1e-9, and otherwise sets the last entry to exactly 1, so that after every
\* successful construction from a distribution the array ends in exactly 1
\* and, the weights being non-negative, does not decrease
C15_CumulativeProbabilities ==
    (call.op = "PhotonSource" /\ ~call.distribution.null) =>
        /\ Abs(call.sum - One) > WeightTolerance =>
               source.state = "aborted"
        /\ source.state = "constructed" =>
               /\ Len(source.discrete_probabilities) > 0
               /\ source.discrete_probabilities
                      [Len(source.discrete_probabilities)] = One
               /\ NonDecreasing(source.discrete_probabilities)

\* ------------------------------------------------------------------------
\* Configuration errors at start up
\* ------------------------------------------------------------------------

\* main has read the discrete sources and their spectrum
DiscreteRead == pc \notin {"start", "sources"}

\* main has read the continuous source and its spectrum
ContinuousRead == pc \notin {"start", "sources", "continuous"}

\* the run was aborted before the source was constructed, the grid was
\* initialised or a photon was shot
AbortedAtStartup ==
    /\ pc = "aborted"
    /\ exit_code = "abort"
    /\ ~source_constructed
    /\ ~grid.initialized
    /\ iterations = 0
    /\ iter_substeps = 0
    /\ grid.acc = 0

\* C16: discrete sources without a discrete spectrum, or a continuous
\* source without a continuous spectrum, abort the program at start up,
\* before the PhotonSource is constructed, before the grid is initialised
\* and before any photon is shot
C16_MissingSpectrumAborts ==
    /\ (DiscreteRead /\ sourcedistribution /\ ~spectrum)
           => AbortedAtStartup
    /\ (ContinuousRead /\ continuoussource /\ ~continuousspectrum)
           => AbortedAtStartup

\* the discrete sources were complete and the continuous source had no
\* spectrum: the run was aborted
C16_Witness ==
    /\ ContinuousRead
    /\ sourcedistribution /\ spectrum
    /\ continuoussource /\ ~continuousspectrum
    /\ AbortedAtStartup

\* the original statement of C17: a continuous spectrum without a
\* continuous source makes start up abort, and the run never reaches the
\* initialisation of the grid or the shooting of photons
C17_IgnoredSpectrumAborts ==
    (ContinuousRead /\ IgnoredSpectrum(continuoussource, continuousspectrum))
        => AbortedAtStartup

\* C17 (amended): a continuous spectrum without a continuous source is not
\* fatal: main writes the warning that the spectrum will be ignored and
\* goes on to the construction of the source
C17_IgnoredSpectrumWarns ==
    /\ []((ContinuousRead /\ ~continuoussource /\ continuousspectrum)
             => "continuous spectrum ignored" \in warnings)
    /\ [][(pc = "continuous" /\ ~continuoussource' /\ continuousspectrum')
             => (pc' = "setup" /\ exit_code' = "running")]_vars

\* a run whose continuous spectrum was ignored has shot photons
C17_Witness ==
    /\ ~continuoussource /\ continuousspectrum
    /\ "continuous spectrum ignored" \in warnings
    /\ grid.initialized
    /\ grid.acc > 0
    /\ pc = "done"

\* ------------------------------------------------------------------------
\* Reproducibility of the photon shooting
\* ------------------------------------------------------------------------

\* the jobs of a substep of K photons, in the order the market hands them
\* out: job j has JobSize photons, the last one the rest
NumberOfJobs(K) == (K + JobSize - 1) \div JobSize

JobPhotons(K, j) == Min(JobSize, K - (j - 1) * JobSize)

\* the worker-local budget of worker w when the K photons of a substep are
\* split over the workers in a way that K and the number of workers fix:
\* job j goes to worker ((j - 1) mod P) + 1
RECURSIVE WorkerLocalBudget(_, _, _)
WorkerLocalBudget(w, K, j) ==
    IF j = 0 THEN 0
    ELSE WorkerLocalBudget(w, K, j - 1)
             + (IF ((j - 1) % NumThreads) + 1 = w
                THEN JobPhotons(K, j) ELSE 0)

\* the job market exists
MarketConstructed ==
    pc \notin {"start", "sources", "continuous", "setup", "dump",
               "dryrun_gate", "init_grid", "aborted"}
        /\ grid.initialized

ProbabilitiesSet == gridcell.initialized /\ probs_T > 0

\* C18: for every temperature T > 0 the helium reemission probabilities
\* set by set_reemission_probabilities do not decrease, lie in (0, 1] and
\* end in exactly 1
C18_HeliumProbabilities ==
    ProbabilitiesSet =>
        /\ \A i \in 1 .. 3 : gridcell.pHe_em[i] <= gridcell.pHe_em[i + 1]
        /\ \A i \in 1 .. 4 :
              0 < gridcell.pHe_em[i] /\ gridcell.pHe_em[i] <= Precision
        /\ gridcell.pHe_em[4] = Precision

\* the original statement of C19: for every temperature T > 0 the hydrogen
\* reemission probability alpha_1_H / alpha_A set by
\* set_reemission_probabilities lies strictly between 0 and 1
C19_HydrogenProbability ==
    ProbabilitiesSet =>
        /\ 0 < gridcell.pHion.num
        /\ gridcell.pHion.num < gridcell.pHion.den

\* C19 (amended): for every temperature between 1 K and 3e6 K the hydrogen
\* reemission probability alpha_1_H / alpha_A lies strictly between 0 and
\* 1; above (4.18 / 1.58)^(1 / 0.17) * 1e4 K, about 3.06e6 K, it exceeds 1
C19_HydrogenProbabilityInRange ==
    (ProbabilitiesSet /\ 1 <= probs_T /\ probs_T <= 3000000) =>
        /\ 0 < gridcell.pHion.num
        /\ gridcell.pHion.num < gridcell.pHion.den

\* the probabilities were set for 2e6 K: p_Hion is above 0.9
C19_Witness ==
    /\ ProbabilitiesSet
    /\ probs_T = 2000000
    /\ gridcell.temperature = probs_T
    /\ 10 * gridcell.pHion.num > 9 * gridcell.pHion.den

\* ------------------------------------------------------------------------
\* Claims about the macros of Error.hpp
\* ------------------------------------------------------------------------

\* a macro was called and control has not gone on in the caller yet
MacroCalled == macro.name /= "none"

\* the characters that are not blanks, tabs, newlines or terminators
IsPrinting(c) == c \notin {NUL, TAB, NEWLINE, SPACE}

printing(chars) == SelectSeq(chars, IsPrinting)

\* the texts of a sequence of printed lines, one after the other
RECURSIVE line_texts(_)
line_texts(lines) ==
    IF lines = <<>> THEN <<>>
    ELSE Head(lines).text \o line_texts(Tail(lines))

\* the stream the called macro wrote to and the other stream
MacroStream == output[stream_of(macro.name)]

OtherStream ==
    output[IF stream_of(macro.name) = "stderr" THEN "stdout" ELSE "stderr"]

\* the lines that follow the header
MessageLines == Tail(MacroStream)

\* the record of the call: the header of the macro and then the formatted
\* message, read from inside the line buffer only, on the stream of the
\* macro and nothing on the other stream
StructuredRecord ==
    /\ MacroStream /= <<>>
    /\ Head(MacroStream) = header(label_of(macro.name))
    /\ \A k \in 1 .. Len(MessageLines) : ~MessageLines[k].overread
    /\ ~output.overflow
    /\ printing(line_texts(MessageLines)) = printing(macro.message)
    /\ OtherStream = <<>>

\* C21: every call of the error macro prints the structured record (the
\* header file:function():line and then the formatted message) to stderr
\* and then aborts, control never goes on after an error and nothing is
\* printed after the abort; the warning and the message macro print the
\* same kind of record and always return to the caller
C21_MacroContract ==
    /\ [](MacroCalled =>
             /\ StructuredRecord
             /\ macro.name = "error" => control = "aborted"
             /\ macro.name \in {"warning", "message"}
                    => control = "returned")
    /\ [][control = "aborted" => UNCHANGED <<output, control>>]_vars

\* C21, the calls without undefined behaviour: the header comes first on
\* the stream of the macro, error ends in abort and warning and message
\* return
C21_DefinedCalls ==
    (MacroCalled /\ ~undefined_behaviour(print_indent(macro.message,
                                                      macro.line0)))
        => /\ Head(MacroStream) = header(label_of(macro.name))
           /\ OtherStream = <<>>
           /\ macro.name = "error" => control = "aborted"
           /\ macro.name \in {"warning", "message"} => control = "returned"

\* C21: a warning whose message ends in a tab at line position 64 has
\* written behind the line buffer and has not returned
C21_CrashedWarning ==
    /\ macro.name = "warning"
    /\ output.overflow
    /\ control = "crashed"

\* ------------------------------------------------------------------------
\* Claims about DensityGridInterface::initialize
\* ------------------------------------------------------------------------

\* the step in which initialize acts on the cell
Initializes == ~gridcell.initialized /\ gridcell'.initialized

\* C22: after initialize(T0, A_He, cell) the neutral fractions of H and He
\* are 1e-6, the temperature is T0, the helium abundance is A_He and the
\* reemission probabilities are those that set_reemission_probabilities
\* computes for T0
C22_Initialize ==
    [][Initializes =>
          LET T0 == initialize_args'.initial_temperature
              expected == set_reemission_probabilities(T0, NewCell)
          IN  /\ gridcell'.ionic_fraction_H_n = InitialNeutralFraction
              /\ gridcell'.ionic_fraction_He_n = InitialNeutralFraction
              /\ gridcell'.temperature = T0
              /\ gridcell'.helium_abundance
                     = initialize_args'.helium_abundance
              /\ gridcell'.pHion = expected.pHion
              /\ gridcell'.pHe_em = expected.pHe_em]_vars

\* C22 witness: a cell that was just initialized with 8000 K and a helium
\* abundance of 0.1
C22_Witness ==
    /\ gridcell.initialized
    /\ initialize_args = [initial_temperature |-> 8000,
                          helium_abundance |-> 1]
    /\ gridcell.temperature = 8000
    /\ gridcell.helium_abundance = 1
    /\ gridcell.ionic_fraction_H_n = InitialNeutralFraction
    /\ gridcell.pHe_em[4] > 0

\* ------------------------------------------------------------------------
\* Claims about the choice of a discrete source
\* ------------------------------------------------------------------------

\* get_random_photon has emitted a photon of a discrete source
DiscretePhoton ==
    call.op = "get_random_photon" /\ call.photon.channel = "discrete"

\* the draw that chose the source, in the unit of the probabilities
SourceDraw == call.u2 * (One \div DrawSteps)

\* C23: the source of a discrete photon is found by an inverse lookup in
\* the cumulative probabilities: for every draw u in [0, 1) the index is
\* the smallest i with u <= cumulative[i], the scan stops inside the array
\* of the sources, and the photon starts exactly at the position of that
\* source; with a single source every photon starts at its position
C23_InverseLookup ==
    DiscretePhoton =>
        LET cumulative == source.discrete_probabilities
            i == call.photon.index
        IN  /\ ~call.photon.invalid
            /\ i \in 1 .. Len(cumulative)
            /\ SourceDraw <= cumulative[i]
            /\ \A j \in 1 .. i - 1 : SourceDraw > cumulative[j]
            /\ call.photon.position = get_position(i)
            /\ Len(cumulative) = 1 =>
                   call.photon.position = [x |-> 5, y |-> 5, z |-> 5]

\* C23 witness: the draw 0.5 meets the cumulative probability 0.5 of the
\* second of three sources, and the photon starts at the second source
C23_Witness ==
    /\ DiscretePhoton
    /\ Len(source.discrete_probabilities) = 3
    /\ SourceDraw = source.discrete_probabilities[2]
    /\ call.photon.index = 2
    /\ call.photon.position = get_position(2)

\* ------------------------------------------------------------------------
\* Claims about the number of photons of an iteration
\* ------------------------------------------------------------------------

\* the number of photons was supplied by the checker first inside the body
\* of the loop, and by the checker last between two iterations
Suppliers(first, last) ==
    /\ pc \in LoopBodyPcs \ {"loop_start"} => numphoton_from = first
    /\ (pc \in {"loop_test", "loop_start"} /\ loop >= 1) =>
          numphoton_from = last

\* C24 as claimed: in each iteration the number of photons N of the
\* iteration is obtained, as the first step, from the photon number
\* convergence checker, and the next N at the end of the iteration from
\* the iteration convergence checker
C24_Checkers == Suppliers("convergence_checker", "itconvergence_checker")

\* C24 as amended: the number of photons of the iteration is obtained, as
\* the first step, from the iteration convergence checker, and the new
\* number at the end of the iteration from the photon number convergence
\* checker
C24_CheckersAmended ==
    Suppliers("itconvergence_checker", "convergence_checker")

\* C24 witness: the second iteration shoots a number of photons that the
\* iteration convergence checker supplied after the photon number
\* convergence checker had supplied one at the end of the first iteration
C24_Witness ==
    /\ loop = 1
    /\ pc = "in_parallel"
    /\ numphoton_from = "itconvergence_checker"
    /\ totnumphoton = 0
    /\ iterations = 2

\* ------------------------------------------------------------------------
\* Claims about the last branch of the helium absorption
\* ------------------------------------------------------------------------

\* C25: the last branch of reemit (helium absorption with a draw above
\* pHe_em[3], the photon is ABSORBED) is never taken in a cell whose
\* reemission probabilities were set by set_reemission_probabilities, for
\* any draw of [0, 1): one of the four helium channels is always selected
C25_NoDefensiveBranch ==
    (ProbabilitiesSet /\ he_absorption.happened) =>
        he_absorption.channel \in 0 .. 3

\* C25: the largest draw below 1 has taken the last branch in a cell whose
\* probabilities were set for 43650 K
C25_DefensiveBranchTaken ==
    /\ ProbabilitiesSet
    /\ probs_T = 43650
    /\ he_absorption.happened
    /\ he_absorption.u = LargestDraw
    /\ he_absorption.channel = 4

\* ------------------------------------------------------------------------
\* Claims about print_indent
\* ------------------------------------------------------------------------

\* the positions of a message at which a word starts
WordStarts(m) ==
    {i \in 1 .. Len(m) :
        IsPrinting(m[i]) /\ (i = 1 \/ ~IsPrinting(m[i - 1]))}

\* the position at which the word that starts at position i ends
WordEnd(m, i) ==
    CHOOSE j \in i .. Len(m) :
        /\ \A k \in i .. j : IsPrinting(m[k])
        /\ j = Len(m) \/ ~IsPrinting(m[j + 1])

\* the words of a message
Words(m) == {SubSeq(m, i, WordEnd(m, i)) : i \in WordStarts(m)}

\* the word w stands in the line with the text t
InLine(w, t) ==
    \E o \in 0 .. Len(t) - Len(w) : SubSeq(t, o + 1, o + Len(w)) = w

\* the message is made of words of at most 65 characters
ShortWords(m) == \A w \in Words(m) : Len(w) <= LineSize

\* C26: print_indent formats a message as a block of lines of at most 65
\* characters of the message behind an indent of 5 blanks: for every
\* message made of words of at most 65 characters that are separated by
\* blanks, tabs and newlines no word is split over two lines and every
\* character of the message that is not white space is printed exactly
\* once and in the order of the message
C26_IndentedBlock ==
    (MacroCalled /\ ShortWords(macro.message)) =>
        /\ \A k \in 1 .. Len(MessageLines) :
              /\ MessageLines[k].indent = Indent
              /\ ~MessageLines[k].overread
              /\ Len(MessageLines[k].text) <= LineSize
        /\ \A w \in Words(macro.message) :
              \E k \in 1 .. Len(MessageLines) : InLine(w, MessageLines[k].text)
        /\ printing(line_texts(MessageLines)) = printing(macro.message)

\* the message has no newline, no tab and no word of 65 or more characters
PlainMessage(m) ==
    /\ \A i \in 1 .. Len(m) : m[i] \notin {NEWLINE, TAB}
    /\ \A w \in Words(m) : Len(w) < LineSize

\* C26, the messages of words of less than 65 characters that are
\* separated by blanks: the lines have at most 64 characters, no word is
\* split and every character that is not a blank is printed once and in
\* order
C26_PlainMessages ==
    (MacroCalled /\ PlainMessage(macro.message)) =>
        /\ \A k \in 1 .. Len(MessageLines) :
              /\ ~MessageLines[k].overread
              /\ Len(MessageLines[k].text) < LineSize
        /\ \A w \in Words(macro.message) :
              \E k \in 1 .. Len(MessageLines) : InLine(w, MessageLines[k].text)
        /\ printing(line_texts(MessageLines)) = printing(macro.message)

\* C26: a word on a line, a newline and a second newline have printed the
\* word twice
C26_PrintedTwice ==
    /\ MacroCalled
    /\ macro.message = <<Letter(1), NEWLINE, NEWLINE>>
    /\ macro.line0[0] = NUL
    /\ line_texts(MessageLines) = <<Letter(1), Letter(1)>>

\* C30: for every message every write into the line buffer of 65 bytes is
\* at an index of 0 .. 64, and whenever a line is printed the buffer is
\* terminated inside its 65 bytes at the end of the characters that were
\* accumulated since the last line break, so that exactly these characters
\* are printed
C30_BufferDiscipline ==
    MacroCalled =>
        /\ ~output.overflow
        /\ \A k \in 1 .. Len(MessageLines) :
              /\ ~MessageLines[k].overread
              /\ Len(MessageLines[k].text) = MessageLines[k].accumulated

\* C30: a tab at line position 64 has written behind the buffer
C30_WriteBehindBuffer ==
    /\ MacroCalled
    /\ Len(macro.message) = LineSize
    /\ macro.message[LineSize] = TAB
    /\ output.overflow

\* ------------------------------------------------------------------------
\* Claims about the index of the final snapshot
\* ------------------------------------------------------------------------

\* the snapshots that were written after the outer loop
FinalSnapshots ==
    {k \in 1 .. Len(snapshots) : snapshots[k].pc = "after_loop"}

\* C27: the final snapshot carries the index loop - 1 of the last iteration
\* that was executed, which lies in [0, max_number_iterations - 1] in every
\* run, also when the body of the loop was never executed: the unsigned
\* subtraction does not wrap around
C27_FinalSnapshotIndex ==
    \A k \in FinalSnapshots :
        /\ snapshots[k].index.hi = 0
        /\ snapshots[k].index.lo = loop - 1
        /\ snapshots[k].index.lo \in 0 .. nloop - 1

\* C27, the runs that executed the body of the loop at least once
C27_AfterAnIteration ==
    \A k \in FinalSnapshots :
        iterations >= 1 =>
            /\ snapshots[k].index.hi = 0
            /\ snapshots[k].index.lo = loop - 1
            /\ snapshots[k].index.lo \in 0 .. nloop - 1

\* C27: a run whose loop body was never executed has written a final
\* snapshot with the index 2^32 - 1
C27_WrappedIndex ==
    /\ iterations = 0
    /\ FinalSnapshots /= {}
    /\ \A k \in FinalSnapshots :
          snapshots[k].index = [hi |-> UIntHalf - 1, lo |-> UIntHalf - 1]

\* positions of main between two substeps of the substep loop
BetweenSubsteps == {"substep_test", "dispatch", "shooting_done"}

\* C28: in every outer iteration the photon total, the total weight and the
\* per-type counters start at zero; between two substeps the counters hold
\* the weight of every packet that was shot in this iteration, and the
\* photon total is the sum of the global sizes of the substeps that were
\* dispatched in it; the solver receives the weight counted in this
\* iteration and get_new_number_of_photons receives that photon total.
C28_IterationCounters ==
    /\ (pc = "substep_test" /\ numsubstep = 0) =>
          /\ totnumphoton = 0
          /\ totweight = 0
          /\ typecount = 0
    /\ pc \in BetweenSubsteps =>
          /\ totnumphoton = handed.dispatched
          /\ totweight = handed.shot
          /\ typecount = handed.shot
    /\ pc \in {"solve", "solving", "end_loop"} =>
          /\ lnumphoton = handed.dispatched
          /\ totweight = handed.shot + handed.elsewhere
          /\ typecount = handed.shot + handed.elsewhere
    /\ handed.solver_weight # NotHanded =>
          handed.solver_weight = handed.shot + handed.elsewhere
    /\ handed.request # NotHanded =>
          handed.request = handed.dispatched

\* C28 witness: the second iteration dispatched two substeps of different
\* sizes, of which this process shot its share, and handed the sums to the
\* solver and to get_new_number_of_photons
C28_Witness ==
    /\ loop = 2
    /\ pc = "loop_test"
    /\ numsubstep = 2
    /\ have_mpi
    /\ handed.dispatched = 300
    /\ handed.shot = 150
    /\ handed.solver_weight = 300
    /\ handed.request = 300

\* a step that is a call of reemit
ReemitCall == phase = "interact" /\ phase' = "returned"

\* the frequencies reemit hands to photon.set_energy
ReemissionFrequencies ==
    {RandomFrequency(sp, T) : sp \in {"HLyc", "HeLyc", "He2pc"},
                              T \in Temperatures \cup {DefaultTemperature}}
       \cup {LineFrequency}

\* C29: reemit never changes the weight or the position of the photon and
\* never modifies the cell; when it returns false it changes only the type
\* of the photon, and when it returns true the photon has a new frequency,
\* a direction drawn by reemit, the cross sections of both ions at the new
\* frequency and the helium correction A_He * sigma(He_n, new frequency).
C29_ReemitFrame ==
    [][ReemitCall =>
          /\ photon'.weight = photon.weight
          /\ photon'.position = photon.position
          /\ cell' = cell
          /\ ~ret' => photon' = [photon EXCEPT !.type = "ABSORBED"]
          /\ ret' =>
                /\ photon'.energy \in ReemissionFrequencies
                /\ photon'.direction = "drawn_by_reemit"
                /\ photon'.cross_section_H_n =
                       get_cross_section("H_n", photon'.energy)
                /\ photon'.cross_section_He_n =
                       get_cross_section("He_n", photon'.energy)
                /\ photon'.cross_section_He_corr =
                       helium_abundance
                          * get_cross_section("He_n", photon'.energy)]_vars

\* C29 witness: reemit returned true for a photon of the source and changed
\* its helium correction with the frequency
C29_Witness ==
    /\ phase = "returned"
    /\ ret
    /\ photon_in.direction = "drawn_by_source"
    /\ photon.direction = "drawn_by_reemit"
    /\ photon.energy # photon_in.energy
    /\ photon_in.cross_section_He_corr > 0
    /\ photon.cross_section_He_corr = 0
    /\ photon.weight = photon_in.weight

====
